---------------------------- MODULE Spec2Model ----------------------------
(***************************************************************************)
(* Verification model of the BloodAid backend's backup layer:              *)
(*   - with_backup_fallback and the donor lookup endpoints built on it     *)
(*     (app/services/backup_service.py, app/api/v1/donors.py);             *)
(*   - the refresh cycle of CachedBackupService and BackupDataService      *)
(*     (app/services/cached_backup_service.py, backup_service.py) with     *)
(*     the scraper and validator outcomes they consume.                    *)
(* Coroutines are modelled by their position (pc) at the await points at   *)
(* which the event loop can switch to another coroutine.                   *)
(***************************************************************************)
EXTENDS Integers, Sequences, FiniteSets, TLC

VARIABLES
    \* ---- one call of with_backup_fallback and the endpoint around it ----
    fb_pc,          \* "idle" | "primary" | "backup_try" | "backup_except" | "done" | "responded"
    caller,         \* "direct" | "nearby" | "search": who called with_backup_fallback
    primaryOut,     \* outcome of primary_func, as seen by with_backup_fallback
    backupOut,      \* outcome of the most recent backup_func invocation
    backupCalls,    \* number of backup_func invocations in this call
    e,              \* the exception bound by `except Exception as e`
    result,         \* outcome of with_backup_fallback
    srcPrimary,     \* endpoint: what the primary database query did
    srcBackup,      \* endpoint: what the backup source did
    response        \* endpoint: HTTP response

fbVars == <<fb_pc, caller, primaryOut, backupOut, backupCalls, e, result,
            srcPrimary, srcBackup, response>>

VARIABLES
    \* ---- clocks ----
    now,            \* datetime.utcnow()/now() read in whole hours
    stamp,          \* the same clock at the resolution of isoformat()
    \* ---- coroutines calling update_cached_data / update_backup_data ----
    pc,             \* per coroutine: "idle" or the await it is suspended in
    ctx,            \* per coroutine: arguments and locals of the call in flight
    ret,            \* the most recent return of an update call
    \* ---- CachedBackupService and its tables ----
    c_scraper,      \* self.scraper: "none" | "broken" | "ready"
    c_is_updating,  \* self.is_updating
    blood_banks,    \* rows of BackupBloodBank
    availability,   \* rows of BackupBloodAvailability
    donors,         \* rows of BackupDonor
    metrics,        \* rows of BackupDataMetrics, in insertion order
    \* ---- BackupDataService ----
    b_scraper,      \* self.scraper
    b_is_updating,  \* self.is_updating
    last_updated,   \* self.last_updated (Never when None)
    cached_availability,  \* self.cached_availability
    cached_blood_banks    \* self.cached_blood_banks

rfVars == <<now, stamp, pc, ctx, ret, c_scraper, c_is_updating, blood_banks,
            availability, donors, metrics, b_scraper, b_is_updating,
            last_updated, cached_availability, cached_blood_banks>>

\* DonorMatcher (app/ml/matching/donor_matcher.py): a call of
\* find_compatible_donors or batch_match_requests, its arguments and what it
\* returned.
VARIABLES m_pc, m_call, m_out

mVars == <<m_pc, m_call, m_out>>

\* The clients of the two services: the background refresh loop
\* (main.py:95-107, backup_service.py:394-406) and the request-serving
\* read operations.
VARIABLES
    loop,           \* the refresh loop: where it is, and its pending sleep
    served          \* the most recent return of a read operation

lpVars == <<loop, served>>

\* The blood group tables (donor_matcher.py:30-39, emergency_sos.py:357-370,
\* eraktkosh_service.py:388-402): a pair of blood groups and what each
\* table says about it.
VARIABLES lookup

\* DataValidator.validate_batch (data_validator.py:472-519): the batch it
\* was given and what it returned.
VARIABLES validation

\* DonorMatcher._calculate_availability_score (donor_matcher.py:219-276):
\* the donor and deadline it was given and the score it returned.
VARIABLES scoring

\* OTPService (otp_service.py) and the otps table (models/otp.py).
VARIABLES
    otps,           \* rows of the otps table, in insertion order
    utcnow,         \* datetime.utcnow(), in minutes
    otp_result      \* what the last OTPService call returned

otpVars == <<otps, utcnow, otp_result>>

uVars == <<lookup, validation, scoring, otpVars>>

vars == <<fbVars, rfVars, mVars, lpVars, uVars>>

-----------------------------------------------------------------------------
(* Python values and outcomes of an awaited call.                          *)

NoExc == "-"

Pending    == [kind |-> "pending", items |-> <<>>, exc |-> NoExc]
RetNone    == [kind |-> "none",    items |-> <<>>, exc |-> NoExc]
RetList(s) == [kind |-> "list",    items |-> s,    exc |-> NoExc]
Raise(x)   == [kind |-> "raise",   items |-> <<>>, exc |-> x]

\* Variants of the emptiness test that differ from the code.
IsEmptyResultAnyList(r) == r.kind = "none" \/ r.kind = "list"
IsEmptyResultNoneOnly(r) == r.kind = "none"

\* `not result or (isinstance(result, list) and len(result) == 0)`
IsEmptyResult(r) == r.kind = "none" \/ (r.kind = "list" /\ Len(r.items) = 0)

PrimaryExceptions == {"EP1", "EP2"}
BackupExceptions  == {"EB1", "EB2"}

PrimaryOutcomes ==
    {RetNone, RetList(<<>>), RetList(<<"p1">>), RetList(<<"p1", "p2">>)}
        \cup {Raise(x) : x \in PrimaryExceptions}
BackupOutcomes ==
    {RetNone, RetList(<<>>), RetList(<<"b1">>), RetList(<<"b1", "b2">>)}
        \cup {Raise(x) : x \in BackupExceptions}

\* What the data source behind an endpoint's closure did.
SourceOutcomes(rows, excs) ==
    {RetList(<<>>)} \cup {RetList(r) : r \in rows} \cup {Raise(x) : x \in excs}

\* get_primary_donors / get_primary_search_results / get_backup_donors /
\* get_backup_search_results: `try: ... return rows  except Exception: return []`
SwallowingClosure(src) == IF src.kind = "raise" THEN RetList(<<>>) ELSE src


Callers == {"direct", "nearby", "search"}

PrimarySources(c) ==
    IF c = "direct" THEN PrimaryOutcomes
    ELSE SourceOutcomes({<<"p1">>, <<"p1", "p2">>}, PrimaryExceptions)
BackupSources(c) ==
    IF c = "direct" THEN BackupOutcomes
    ELSE SourceOutcomes({<<"b1">>, <<"b1", "b2">>}, BackupExceptions)

AllPrimarySources == UNION {PrimarySources(c) : c \in Callers}
AllBackupSources == UNION {BackupSources(c) : c \in Callers}

-----------------------------------------------------------------------------
(* with_backup_fallback, backup_service.py:369-391.                        *)

\* A variant that lets the exception of backup_func escape.
ReraisedBackupException(bound_e, backup_e) == backup_e

\* The exception that leaves with_backup_fallback when backup_func raised
\* inside the handler of `except Exception as e`: `raise e`.
ReraisedException(bound_e, backup_e) == bound_e

FallbackInit ==
    /\ fb_pc = "idle"
    /\ caller = "direct"
    /\ primaryOut = Pending
    /\ backupOut = Pending
    /\ backupCalls = 0
    /\ e = NoExc
    /\ result = Pending
    /\ srcPrimary = Pending
    /\ srcBackup = Pending
    /\ response = [status |-> 0, donors |-> <<>>]

\* A caller enters with_backup_fallback and awaits primary_func.
\* "direct" is a call with arbitrary coroutines (as test_core_backup.py
\* does); "nearby" and "search" are the two endpoints of donors.py.
CallWithBackupFallback(c) ==
    /\ fb_pc = "idle"
    /\ caller' = c
    /\ fb_pc' = "primary"
    /\ UNCHANGED <<primaryOut, backupOut, backupCalls, e, result,
                   srcPrimary, srcBackup, response>>
    /\ UNCHANGED <<rfVars, mVars, uVars, lpVars>>

\* What primary_func / backup_func hand back for a given source outcome.
AsSeenByFallback(c, src) == IF c = "direct" THEN src ELSE SwallowingClosure(src)

\* `result = await primary_func(...)` completes (lines 371-384).
PrimaryCompletes(src) ==
    /\ fb_pc = "primary"
    /\ src \in PrimarySources(caller)
    /\ srcPrimary' = src
    /\ LET out == AsSeenByFallback(caller, src) IN
        /\ primaryOut' = out
        /\ IF out.kind = "raise"
             THEN /\ e' = out.exc
                  /\ fb_pc' = "backup_except"
                  /\ backupCalls' = backupCalls + 1
                  /\ UNCHANGED result
             ELSE IF IsEmptyResult(out)
                    THEN /\ fb_pc' = "backup_try"
                         /\ backupCalls' = backupCalls + 1
                         /\ UNCHANGED <<e, result>>
                    ELSE /\ result' = out
                         /\ fb_pc' = "done"
                         /\ UNCHANGED <<e, backupCalls>>
    /\ UNCHANGED <<caller, backupOut, srcBackup, response>>
    /\ UNCHANGED <<rfVars, mVars, uVars, lpVars>>

\* `backup_result = await backup_func(...)` on line 378 completes.  It runs
\* inside the outer try, so an exception of backup_func is caught by
\* `except Exception as e` and backup_func is awaited again on line 387.
BackupInTryCompletes(src) ==
    /\ fb_pc = "backup_try"
    /\ src \in BackupSources(caller)
    /\ srcBackup' = src
    /\ LET out == AsSeenByFallback(caller, src) IN
        /\ backupOut' = out
        /\ IF out.kind = "raise"
             THEN /\ e' = out.exc
                  /\ fb_pc' = "backup_except"
                  /\ backupCalls' = backupCalls + 1
                  /\ UNCHANGED result
             ELSE /\ result' = out
                  /\ fb_pc' = "done"
                  /\ UNCHANGED <<e, backupCalls>>
    /\ UNCHANGED <<caller, primaryOut, srcPrimary, response>>
    /\ UNCHANGED <<rfVars, mVars, uVars, lpVars>>

\* `backup_result = await backup_func(...)` on line 387 completes.
BackupInExceptCompletes(src) ==
    /\ fb_pc = "backup_except"
    /\ src \in BackupSources(caller)
    /\ srcBackup' = src
    /\ LET out == AsSeenByFallback(caller, src) IN
        /\ backupOut' = out
        /\ result' = IF out.kind = "raise"
                       THEN Raise(ReraisedException(e, out.exc))
                       ELSE out
        /\ fb_pc' = "done"
    /\ UNCHANGED <<caller, primaryOut, backupCalls, e, srcPrimary, response>>
    /\ UNCHANGED <<rfVars, mVars, uVars, lpVars>>

\* get_nearby_donors / search_donors after the fallback call
\* (donors.py:154-173, 248-267): a dict with the donors and len(donors),
\* or HTTPException(500) when anything in the try block raised.
EndpointResponse(res) ==
    IF res.kind = "list"
      THEN [status |-> 200, donors |-> res.items]
      ELSE [status |-> 500, donors |-> <<>>]

EndpointResponds ==
    /\ fb_pc = "done"
    /\ caller # "direct"
    /\ response' = EndpointResponse(result)
    /\ fb_pc' = "responded"
    /\ UNCHANGED <<caller, primaryOut, backupOut, backupCalls, e, result,
                   srcPrimary, srcBackup>>
    /\ UNCHANGED <<rfVars, mVars, uVars, lpVars>>

\* The call is over; the next one starts from scratch.
FallbackReturns ==
    /\ \/ fb_pc = "done" /\ caller = "direct"
       \/ fb_pc = "responded"
    /\ fb_pc' = "idle"
    /\ caller' = "direct"
    /\ primaryOut' = Pending
    /\ backupOut' = Pending
    /\ backupCalls' = 0
    /\ e' = NoExc
    /\ result' = Pending
    /\ srcPrimary' = Pending
    /\ srcBackup' = Pending
    /\ response' = [status |-> 0, donors |-> <<>>]
    /\ UNCHANGED <<rfVars, mVars, uVars, lpVars>>

-----------------------------------------------------------------------------
(* Bounds of the refresh model.                                            *)

NumCoroutines == 2      \* coroutines that may call the update methods
MaxStamp == 2           \* refresh cycles started in one behaviour
MaxTime == 3            \* hours the clock may advance
MaxBatch == 2           \* records one scrape may return
MaxMetrics == 3         \* metrics rows of a history the expiry check reads

Coroutines == 1..NumCoroutines

\* timedelta(hours=2), in hours
CacheDurationHours == 2

Never == -1

-----------------------------------------------------------------------------
(* Scraped records (eraktkosh_scraper.py) and their validation             *)
(* (data_validator.py).  Names are sequences of characters so that the     *)
(* validator's length checks are computed.  The scraper never fills in     *)
(* coordinates, so the records of a refresh cycle carry none.              *)

BankPool ==
    { [name |-> <<"R", "e", "d">>],
      [name |-> <<"A", "B">>] }

AvailPool ==
    { [blood_bank_name |-> <<"R", "e", "d">>, blood_group |-> "O+",
       units_available |-> 4],
      [blood_bank_name |-> <<"R", "e", "d">>, blood_group |-> "Unknown",
       units_available |-> 0] }

RECURSIVE SeqsUpTo(_, _)
SeqsUpTo(S, n) ==
    IF n = 0 THEN {<<>>}
    ELSE LET shorter == SeqsUpTo(S, n - 1) IN
         shorter \cup {Append(q, x) : q \in {r \in shorter : Len(r) = n - 1}, x \in S}

BankBatches  == SeqsUpTo(BankPool, MaxBatch)
AvailBatches == SeqsUpTo(AvailPool, MaxBatch)

VALID_BLOOD_GROUPS == {"A+", "A-", "B+", "B-", "AB+", "AB-", "O+", "O-"}

Range(f) == {f[i] : i \in DOMAIN f}

\* validate_blood_bank_info: the only error a scraped record can have is a
\* name shorter than 3 characters; cleaned_data is the record plus the
\* validation timestamp datetime.now().isoformat().
ValidateBloodBankInfo(bank, t) ==
    [is_valid |-> Len(bank.name) >= 3,
     cleaned_data |-> [name |-> bank.name, validated_at |-> t]]

\* validate_blood_availability: errors for a blood group outside
\* VALID_BLOOD_GROUPS (after _fix_blood_group found no fix) and for a bank
\* name shorter than 3 characters.
ValidateBloodAvailability(avail, t) ==
    [is_valid |-> /\ avail.blood_group \in VALID_BLOOD_GROUPS
                  /\ Len(avail.blood_bank_name) >= 3,
     cleaned_data |-> [blood_bank_name |-> avail.blood_bank_name,
                       blood_group |-> avail.blood_group,
                       units_available |-> avail.units_available,
                       last_updated |-> avail.last_updated,
                       validated_at |-> t]]

\* validate_donor_data for the synthetic donor of a blood bank:
\* name is "Blood Bank: <bank name>", 12 characters longer than the bank's.
ValidateDonorData(donor, t) ==
    [is_valid |-> Len(donor.bank_name) + 12 >= 2,
     cleaned_data |-> [bank_name |-> donor.bank_name,
                       blood_group |-> donor.blood_group,
                       validated_at |-> t]]

Validate(item, data_type, t) ==
    CASE data_type = "blood_bank" -> ValidateBloodBankInfo(item, t)
      [] data_type = "blood_availability" -> ValidateBloodAvailability(item, t)
      [] data_type = "donor" -> ValidateDonorData(item, t)

\* datetime.now() as read by the i-th validation of a batch: the clock
\* reading t of the cycle and, below it, either the same instant for every
\* record of the batch or a later instant for each.
ClockAt(t, i, same_instant) == <<t, IF same_instant THEN 0 ELSE i>>

\* validate_batch: the cleaned records of the items without errors, in
\* input order, and the counts.
ValidateBatch(data_list, data_type, t, same_instant) ==
    LET results == [i \in 1..Len(data_list) |->
                      Validate(data_list[i], data_type, ClockAt(t, i, same_instant))]
        good == SelectSeq(results, LAMBDA r: r.is_valid)
    IN [valid_items |-> [i \in 1..Len(good) |-> good[i].cleaned_data],
        valid |-> Len(good),
        invalid |-> Len(data_list) - Len(good),
        total |-> Len(data_list)]

-----------------------------------------------------------------------------
(* CachedBackupService, cached_backup_service.py.                          *)

\* _generate_external_id: md5 of json.dumps(data, sort_keys=True), taken as
\* collision-free: two ids are equal iff prefix and data are equal.
GenerateExternalId(data, prefix) == <<prefix, data>>

\* The BackupDataMetrics rows with update_successful == True.
SuccessfulMetrics(tbl) == {i \in DOMAIN tbl : tbl[i].update_successful}

\* A variant that lets the latest row decide whatever its outcome.
IsCacheExpiredAnyRow(tbl, t) ==
    IF tbl = <<>> THEN TRUE
    ELSE LET latest == CHOOSE i \in DOMAIN tbl :
                          \A j \in DOMAIN tbl : tbl[j].date <= tbl[i].date
         IN t - tbl[latest].date > CacheDurationHours

\* _is_cache_expired (lines 50-64): the successful row with the greatest
\* date decides; without one the cache is expired.
IsCacheExpired(tbl, t) ==
    LET ok == SuccessfulMetrics(tbl) IN
    IF ok = {} THEN TRUE
    ELSE LET latest == CHOOSE i \in ok : \A j \in ok : tbl[j].date <= tbl[i].date
         IN t - tbl[latest].date > CacheDurationHours

\* A variant of the guard that lets a forced call through.
SingleFlightSkipUnlessForced(is_updating, force) == is_updating /\ ~force

\* `if self.is_updating: return False` (lines 68-70 and backup_service.py
\* lines 54-56): the guard does not look at force.
SingleFlightSkip(is_updating, force) == is_updating

\* The handler of `except Exception` (lines 174-188) records a failed
\* metrics row only if the local `metrics` was bound (line 89); otherwise
\* the NameError is swallowed by the bare `except: pass`.
RecordFailedMetrics(tbl, metrics_bound, start_time) ==
    IF metrics_bound
      THEN Append(tbl, [date |-> start_time, update_successful |-> FALSE])
      ELSE tbl

\* A variant that leaves the earlier generation active.
MarkNoneInactive(table) == table

\* Rows left by `query.filter(source == "eraktkosh").update({"is_active":
\* False})`: every row has the default source.
MarkAllInactive(table) == {[r EXCEPT !.is_active = FALSE] : r \in table}

\* _store_blood_banks / _store_availability / the loop of
\* _generate_donor_data.  The session has autoflush=False, so the lookup by
\* external_id sees the stored rows only; two new rows with one external_id
\* violate the unique constraint at commit, and the except branch rolls the
\* whole step back.
StoreRows(table, items, prefix) ==
    LET ids == [i \in 1..Len(items) |-> GenerateExternalId(items[i], prefix)]
        stored == {r.external_id : r \in table}
        fresh == {i \in 1..Len(items) : ids[i] \notin stored}
        conflict == \E i, j \in fresh : i # j /\ ids[i] = ids[j]
        marked == MarkAllInactive(table)
        updated == {IF r.external_id \in Range(ids)
                      THEN [r EXCEPT !.is_active = TRUE] ELSE r : r \in marked}
        added == {[external_id |-> ids[i], data |-> items[i], is_active |-> TRUE]
                    : i \in fresh}
    IN [committed |-> ~conflict,
        table |-> IF conflict THEN table ELSE updated \cup added]

\* The synthetic donor of a validated blood bank (lines 304-316).
DonorOfBank(bank_data) == [bank_name |-> bank_data.name, blood_group |-> "O+"]

\* _generate_donor_data (lines 291-362).
GenerateDonorData(table, banks, t, same_instant) ==
    LET donor_dicts == [i \in 1..Len(banks) |-> DonorOfBank(banks[i])]
        res == ValidateBatch(donor_dicts, "donor", t, same_instant)
    IN StoreRows(table, res.valid_items, "donor")

\* get_cached_blood_banks / get_cached_availability / get_cached_donors
\* without filters: the ids of the rows returned.
GetCachedBloodBanks == {r.external_id : r \in {x \in blood_banks : x.is_active}}
GetCachedAvailability ==
    {r.external_id : r \in {x \in availability :
                               x.is_active /\ x.data.units_available > 0}}
GetCachedDonors == {r.external_id : r \in {x \in donors : x.is_active}}

\* The locals of a coroutine that is not inside an update call.
IdleCtx ==
    [force |-> FALSE, start_time |-> Never, raw_availability |-> <<>>,
     avail_reachable |-> FALSE, reader |-> "none"]

\* What is recorded of a call when it returns.
NoReturn ==
    [svc |-> "none", force |-> FALSE, value |-> "pending",
     why |-> "-", at |-> "-", unreachable |-> FALSE,
     avail_reachable |-> FALSE,
     valid_blood_banks |-> <<>>, valid_availability |-> <<>>,
     banks_committed |-> FALSE, avail_committed |-> FALSE]

Returned(svc, force, value, why) ==
    [NoReturn EXCEPT !.svc = svc, !.force = force, !.value = value, !.why = why]

RefreshInit ==
    /\ now = 0
    /\ stamp = 0
    /\ pc = [c \in Coroutines |-> "idle"]
    /\ ctx = [c \in Coroutines |-> IdleCtx]
    /\ ret = NoReturn
    /\ c_scraper = "none"
    /\ c_is_updating = FALSE
    /\ blood_banks = {}
    /\ availability = {}
    /\ donors = {}
    /\ metrics = <<>>
    /\ b_scraper = "none"
    /\ b_is_updating = FALSE
    /\ last_updated = Never
    /\ cached_availability = <<>>
    /\ cached_blood_banks = <<>>

backupSvcVars == <<b_scraper, b_is_updating, last_updated, cached_availability,
                   cached_blood_banks>>
cachedTables == <<blood_banks, availability, donors, metrics>>
cachedSvcVars == <<c_scraper, c_is_updating, blood_banks, availability,
                   donors, metrics>>

-----------------------------------------------------------------------------
(* The clients of the services: refresh loops and read operations.         *)

\* The coroutine of the background task (main.py:110, create_task).
LoopTask == 1

\* asyncio.sleep(2 * 60 * 60) and asyncio.sleep(30 * 60), in minutes.
RefreshIntervalMinutes == 120
RetryDelayMinutes == 30

\* No refresh loop was started.
LoopOff ==
    [pc |-> "off", svc |-> "none", delay |-> 0, since |-> 0,
     outcome |-> "-", why |-> "-"]

\* A loop about to make its first call of the update of service svc.
LoopReady(svc) == [LoopOff EXCEPT !.pc = "ready", !.svc = svc]

\* No read operation has returned.
NoRead == [op |-> "none", rows |-> <<>>, ids |-> {}]

ClientsInit ==
    /\ loop = LoopOff
    /\ served = NoRead

\* The sleep the loop body chooses (main.py:97-107, backup_service.py:
\* 399-406): the `try` branch, whatever the awaited call returned, sleeps
\* two hours; only an Exception raised by the call leads to the
\* half-hour sleep of the `except Exception` branch.
RefreshLoopDelay(outcome) ==
    IF outcome = "raise" THEN RetryDelayMinutes ELSE RefreshIntervalMinutes

\* The loop after its awaited call returned: it goes to sleep.
LoopAfterCall(returned) ==
    [loop EXCEPT !.pc = "sleeping",
                 !.delay = RefreshLoopDelay(returned.value),
                 !.since = now,
                 !.outcome = returned.value,
                 !.why = returned.why]

\* The entries of BackupDataService.cached_blood_banks and
\* cached_availability are the cleaned_data dicts of validate_batch
\* (data_validator.py:500), which have no attributes.
HasAttributes(entry) == FALSE

\* What get_backup_donors / get_backup_blood_banks /
\* get_backup_blood_availability return without filters
\* (backup_service.py:157-213, 221-265, 273-315): the loops read
\* bank.name, avail.blood_bank_name, ... of every entry.  On a dict that
\* raises AttributeError; the availability loop skips the entry, the two
\* bank loops raise again in their handler (its message reads bank.name)
\* and the outer handler returns [].
BackupReadResult(op, entries) == SelectSeq(entries, HasAttributes)

BackupReadOps ==
    {"get_backup_donors", "get_backup_blood_availability",
     "get_backup_blood_banks"}
CachedReadOps ==
    {"get_cached_donors", "get_cached_blood_banks", "get_cached_availability"}

\* The value a read operation of BackupDataService returns once its
\* `await self.update_backup_data()` is over.
ServedByBackup(op, banks, avail) ==
    [op |-> op,
     rows |-> BackupReadResult(op, IF op = "get_backup_blood_availability"
                                     THEN avail ELSE banks),
     ids |-> {}]

\* The caller of an update call gets its return value: the refresh loop
\* goes to sleep, a read operation goes on to read the cached lists.
CallerResumes(c, returned) ==
    /\ loop' = IF c = LoopTask /\ loop.pc = "awaiting"
                 THEN LoopAfterCall(returned) ELSE loop
    /\ served' = IF ctx[c].reader # "none"
                   THEN ServedByBackup(ctx[c].reader, cached_blood_banks',
                                       cached_availability')
                   ELSE served

\* Coroutine c is free to serve a request: it is not the refresh loop.
ServesRequests(c) == ~(c = LoopTask /\ loop.pc # "off")

-----------------------------------------------------------------------------
(* CachedBackupService.update_cached_data.                                 *)

\* update_cached_data from its entry to its first suspension, the first
\* network fetch inside get_all_blood_availability (lines 66-97).
\* init_ok: whether ERaktKoshScraper.__aenter__ manages to build its
\* aiohttp session; self.scraper is assigned before __aenter__ runs.
\* A call that gets past the guard and the freshness check reads the clock
\* (start_time), which has advanced since the previous cycle.
UpdateCachedDataEnter(c, force, init_ok) ==
    /\ pc[c] = "idle"
    /\ b_scraper = "none"     \* exploration: one service per behaviour
    /\ IF SingleFlightSkip(c_is_updating, force)
         THEN /\ ret' = Returned("cached", force, "False", "skipped")
              /\ UNCHANGED <<pc, ctx, stamp, c_scraper, c_is_updating, metrics>>
       ELSE IF ~force /\ ~IsCacheExpired(metrics, now)
         THEN /\ ret' = Returned("cached", force, "True", "fresh")
              /\ UNCHANGED <<pc, ctx, stamp, c_scraper, c_is_updating, metrics>>
       ELSE /\ stamp < MaxStamp
            /\ stamp' = stamp + 1
            /\ IF c_scraper = "none" /\ ~init_ok
                 THEN /\ c_scraper' = "broken"
                      /\ metrics' = RecordFailedMetrics(metrics, FALSE, now)
                      /\ c_is_updating' = FALSE
                      /\ ret' = Returned("cached", force, "False", "init_failed")
                      /\ UNCHANGED <<pc, ctx>>
                 ELSE /\ c_scraper' = IF c_scraper = "none" THEN "ready"
                                                            ELSE c_scraper
                      /\ c_is_updating' = TRUE
                      /\ ctx' = [ctx EXCEPT ![c] = [IdleCtx EXCEPT
                                                      !.force = force,
                                                      !.start_time = now]]
                      /\ pc' = [pc EXCEPT ![c] = "c_avail"]
                      /\ UNCHANGED <<metrics, ret>>
    /\ UNCHANGED <<now, blood_banks, availability, donors>>
    /\ UNCHANGED backupSvcVars
    /\ UNCHANGED <<fbVars, mVars, uVars>>

\* A call of update_cached_data made for a request (POST /refresh-backup,
\* main.py:302, passes force=True).
UpdateCachedDataCall(c, force, init_ok) ==
    /\ ServesRequests(c)
    /\ UpdateCachedDataEnter(c, force, init_ok)
    /\ UNCHANGED lpVars

\* What a scrape can return: nothing when every fetch failed (_make_request
\* returns None and scrape_* returns []), which is always the case for a
\* scraper without a session.
ScrapeReturns(scraper, reachable, raw) ==
    /\ scraper = "broken" => ~reachable
    /\ ~reachable => raw = <<>>

\* The dicts built from the scraped BloodAvailability objects; each object
\* carries last_updated = datetime.now() of its parsing.
AvailabilityDicts(raw, t) ==
    [i \in 1..Len(raw) |->
       [blood_bank_name |-> raw[i].blood_bank_name,
        blood_group |-> raw[i].blood_group,
        units_available |-> raw[i].units_available,
        last_updated |-> t]]

\* A variant in which a cycle whose availability fetch failed ends there.
AfterAvailabilityFetchAborting(reachable) ==
    IF reachable THEN "c_banks" ELSE "idle"

\* Lines 97-101: whatever get_all_blood_availability returned, the next
\* statement awaits get_all_blood_banks.
AfterAvailabilityFetch(reachable) == "c_banks"

\* `raw_availability = await self.scraper.get_all_blood_availability()`
\* returns; the coroutine suspends again in get_all_blood_banks.
CachedAvailabilityScraped(c, reachable, raw) ==
    /\ pc[c] = "c_avail"
    /\ ScrapeReturns(c_scraper, reachable, raw)
    /\ ctx' = [ctx EXCEPT ![c].raw_availability = AvailabilityDicts(raw, stamp),
                          ![c].avail_reachable = reachable]
    /\ pc' = [pc EXCEPT ![c] = AfterAvailabilityFetch(reachable)]
    /\ UNCHANGED <<now, stamp, ret, c_scraper, c_is_updating>>
    /\ UNCHANGED cachedTables
    /\ UNCHANGED backupSvcVars
    /\ UNCHANGED <<fbVars, mVars, uVars, lpVars>>

\* `raw_blood_banks = await self.scraper.get_all_blood_banks()` returns and
\* update_cached_data runs to its end without suspending again (lines
\* 101-172): validation, the three store steps, the metrics row.
CachedBanksScraped(c, reachable, raw, same_instant) ==
    /\ pc[c] = "c_banks"
    /\ ScrapeReturns(c_scraper, reachable, raw)
    /\ LET bank_res == ValidateBatch(raw, "blood_bank", stamp, same_instant)
           avail_res == ValidateBatch(ctx[c].raw_availability,
                                      "blood_availability", stamp, same_instant)
           banks_st == StoreRows(blood_banks, bank_res.valid_items, "bank")
           avail_st == StoreRows(availability, avail_res.valid_items, "avail")
           donor_st == GenerateDonorData(donors, bank_res.valid_items, stamp,
                                         same_instant)
       IN /\ blood_banks' = banks_st.table
          /\ availability' = avail_st.table
          /\ donors' = donor_st.table
          /\ metrics' = Append(metrics, [date |-> ctx[c].start_time,
                                         update_successful |-> TRUE])
          /\ ret' = [Returned("cached", ctx[c].force, "True", "completed")
                       EXCEPT !.unreachable =
                                  ~ctx[c].avail_reachable /\ ~reachable,
                              !.avail_reachable = ctx[c].avail_reachable,
                              !.valid_blood_banks = bank_res.valid_items,
                              !.valid_availability = avail_res.valid_items,
                              !.banks_committed = banks_st.committed,
                              !.avail_committed = avail_st.committed]
    /\ c_is_updating' = FALSE
    /\ ctx' = [ctx EXCEPT ![c] = IdleCtx]
    /\ pc' = [pc EXCEPT ![c] = "idle"]
    /\ UNCHANGED <<now, stamp, c_scraper>>
    /\ UNCHANGED backupSvcVars
    /\ CallerResumes(c, ret')
    /\ UNCHANGED <<fbVars, mVars, uVars>>

\* Time passes.
Tick ==
    /\ now < MaxTime
    /\ now' = now + 1
    /\ UNCHANGED <<stamp, pc, ctx, ret>>
    /\ UNCHANGED cachedSvcVars
    /\ UNCHANGED backupSvcVars
    /\ UNCHANGED <<fbVars, mVars, uVars, lpVars>>

-----------------------------------------------------------------------------
(* BackupDataService, backup_service.py:22-149.                            *)

\* _is_cache_valid (lines 44-48).
IsCacheValid(updated, t) ==
    IF updated = Never THEN FALSE ELSE t - updated < CacheDurationHours

\* update_backup_data from its entry to its first suspension (lines 50-72).
UpdateBackupDataEnter(c, force, init_ok, reader) ==
    /\ pc[c] = "idle"
    /\ c_scraper = "none"     \* exploration: one service per behaviour
    /\ IF SingleFlightSkip(b_is_updating, force)
         THEN /\ ret' = Returned("backup", force, "False", "skipped")
              /\ UNCHANGED <<pc, ctx, stamp, b_scraper, b_is_updating>>
       ELSE IF ~force /\ IsCacheValid(last_updated, now)
         THEN /\ ret' = Returned("backup", force, "True", "fresh")
              /\ UNCHANGED <<pc, ctx, stamp, b_scraper, b_is_updating>>
       ELSE /\ stamp < MaxStamp
            /\ stamp' = stamp + 1
            /\ IF b_scraper = "none" /\ ~init_ok
                 THEN /\ b_scraper' = "broken"
                      /\ b_is_updating' = FALSE
                      /\ ret' = Returned("backup", force, "False", "init_failed")
                      /\ UNCHANGED <<pc, ctx>>
                 ELSE /\ b_scraper' = IF b_scraper = "none" THEN "ready"
                                                            ELSE b_scraper
                      /\ b_is_updating' = TRUE
                      /\ ctx' = [ctx EXCEPT ![c] = [IdleCtx EXCEPT
                                                      !.force = force,
                                                      !.reader = reader]]
                      /\ pc' = [pc EXCEPT ![c] = "b_avail"]
                      /\ UNCHANGED ret
    /\ UNCHANGED <<now, last_updated, cached_availability, cached_blood_banks>>
    /\ UNCHANGED cachedSvcVars
    /\ UNCHANGED <<fbVars, mVars, uVars>>

\* A direct call of update_backup_data.
UpdateBackupDataCall(c, force, init_ok) ==
    /\ ServesRequests(c)
    /\ UpdateBackupDataEnter(c, force, init_ok, "none")
    /\ UNCHANGED lpVars

\* get_all_blood_availability returns; the records are validated and
\* self.cached_availability is replaced (lines 72-99); the coroutine
\* suspends again in get_all_blood_banks.
BackupAvailabilityScraped(c, reachable, raw, same_instant) ==
    /\ pc[c] = "b_avail"
    /\ ScrapeReturns(b_scraper, reachable, raw)
    /\ cached_availability' =
          ValidateBatch(AvailabilityDicts(raw, stamp), "blood_availability",
                        stamp, same_instant).valid_items
    /\ ctx' = [ctx EXCEPT ![c].avail_reachable = reachable]
    /\ pc' = [pc EXCEPT ![c] = "b_banks"]
    /\ UNCHANGED <<now, stamp, ret, b_scraper, b_is_updating, last_updated,
                   cached_blood_banks>>
    /\ UNCHANGED cachedSvcVars
    /\ UNCHANGED <<fbVars, mVars, uVars, lpVars>>

\* get_all_blood_banks returns; the records are validated,
\* self.cached_blood_banks is replaced, last_updated is set and the call
\* returns True (lines 107-144).
BackupBanksScraped(c, reachable, raw, same_instant) ==
    /\ pc[c] = "b_banks"
    /\ ScrapeReturns(b_scraper, reachable, raw)
    /\ LET res == ValidateBatch(raw, "blood_bank", stamp, same_instant)
       IN /\ cached_blood_banks' = res.valid_items
          /\ ret' = [Returned("backup", ctx[c].force, "True", "completed")
                       EXCEPT !.unreachable =
                                  ~ctx[c].avail_reachable /\ ~reachable,
                              !.avail_reachable = ctx[c].avail_reachable,
                              !.valid_blood_banks = res.valid_items,
                              !.valid_availability = cached_availability]
    /\ last_updated' = now
    /\ b_is_updating' = FALSE
    /\ ctx' = [ctx EXCEPT ![c] = IdleCtx]
    /\ pc' = [pc EXCEPT ![c] = "idle"]
    /\ UNCHANGED <<now, stamp, b_scraper, cached_availability>>
    /\ UNCHANGED cachedSvcVars
    /\ CallerResumes(c, ret')
    /\ UNCHANGED <<fbVars, mVars, uVars>>

-----------------------------------------------------------------------------
(* Refresh loops, cancellation and read operations.                        *)

\* One iteration of refresh_backup_data (main.py:96-101) up to the first
\* suspension of `await backup_service.update_cached_data()`; when the call
\* returns without suspending, the loop is already in its sleep.
RefreshBackupDataIterates(init_ok) ==
    /\ loop.pc = "ready"
    /\ loop.svc = "cached"
    /\ UpdateCachedDataEnter(LoopTask, FALSE, init_ok)
    /\ loop' = IF pc'[LoopTask] = "idle"
                 THEN LoopAfterCall(ret')
                 ELSE [loop EXCEPT !.pc = "awaiting"]
    /\ UNCHANGED served

\* One iteration of start_backup_refresh_task (backup_service.py:398-402).
StartBackupRefreshTaskIterates(init_ok) ==
    /\ loop.pc = "ready"
    /\ loop.svc = "backup"
    /\ UpdateBackupDataEnter(LoopTask, FALSE, init_ok, "none")
    /\ loop' = IF pc'[LoopTask] = "idle"
                 THEN LoopAfterCall(ret')
                 ELSE [loop EXCEPT !.pc = "awaiting"]
    /\ UNCHANGED served

\* asyncio.sleep returns once the delay has passed on the clock, which is
\* read in whole hours; the loop starts its next iteration.
LoopWakes ==
    /\ loop.pc = "sleeping"
    /\ now - loop.since >= loop.delay \div 60
    /\ loop' = [loop EXCEPT !.pc = "ready"]
    /\ UNCHANGED <<fbVars, rfVars, mVars, uVars, served>>

\* asyncio.CancelledError is raised at the await in which coroutine c is
\* suspended: task.cancel() of the background tasks at shutdown
\* (main.py:67-72), or the wait_for of the timeout middleware
\* (main.py:168) around a request.  CancelledError is not an Exception:
\* neither `except Exception` of update_cached_data (line 174) nor that of
\* update_backup_data (lines 101, 137, 146) nor that of a read operation
\* catches it, so the call is left with is_updating as it is.  The loop
\* of main.py breaks (lines 102-103); the one of backup_service.py lets the
\* error end its task.
CycleCancelled(c) ==
    /\ pc[c] # "idle"
    /\ ret' = [Returned(IF pc[c] \in {"c_avail", "c_banks"} THEN "cached"
                                                             ELSE "backup",
                        ctx[c].force, "raise", "cancelled")
                 EXCEPT !.at = pc[c]]
    /\ pc' = [pc EXCEPT ![c] = "idle"]
    /\ ctx' = [ctx EXCEPT ![c] = IdleCtx]
    /\ loop' = IF c = LoopTask /\ loop.pc = "awaiting"
                 THEN [loop EXCEPT !.pc = "stopped", !.outcome = "raise",
                                   !.why = "cancelled"]
                 ELSE loop
    /\ UNCHANGED <<now, stamp, served>>
    /\ UNCHANGED cachedSvcVars
    /\ UNCHANGED backupSvcVars
    /\ UNCHANGED <<fbVars, mVars, uVars>>

\* get_backup_donors / get_backup_blood_availability /
\* get_backup_blood_banks (backup_service.py:151-156, 215-220, 267-272):
\* each begins with `await self.update_backup_data()` and reads the cached
\* lists once that call is over.
GetBackupData(c, op, init_ok) ==
    /\ ServesRequests(c)
    /\ UpdateBackupDataEnter(c, FALSE, init_ok, op)
    /\ served' = IF pc'[c] = "idle"
                   THEN ServedByBackup(op, cached_blood_banks,
                                       cached_availability)
                   ELSE served
    /\ UNCHANGED loop

\* get_cached_donors / get_cached_blood_banks / get_cached_availability
\* (cached_backup_service.py:364-504): one query over the active rows.
GetCachedData(op) ==
    /\ b_scraper = "none"     \* exploration: one service per behaviour
    /\ served' = [op |-> op, rows |-> <<>>,
                  ids |-> CASE op = "get_cached_donors" -> GetCachedDonors
                            [] op = "get_cached_blood_banks" ->
                                  GetCachedBloodBanks
                            [] OTHER -> GetCachedAvailability]
    /\ UNCHANGED <<fbVars, rfVars, mVars, uVars, loop>>

-----------------------------------------------------------------------------
(* _is_cache_expired applied to metrics histories.                         *)

\* The histories the table backup_data_metrics can hold: rows are appended
\* with date = start_time of their cycle, so dates do not decrease and none
\* lies in the future; a cycle leaves a successful row (line 166) or a
\* failed one (lines 178-183).
MetricsRows == [date : 0..MaxTime, update_successful : BOOLEAN]
MetricsHistories(t) ==
    {h \in SeqsUpTo(MetricsRows, MaxMetrics) :
        /\ \A i \in DOMAIN h : h[i].date <= t
        /\ \A i, j \in DOMAIN h : i < j => h[i].date <= h[j].date}

ExpiryInit ==
    /\ now \in 0..MaxTime
    /\ metrics \in MetricsHistories(now)
    /\ stamp = 0
    /\ pc = [c \in Coroutines |-> "idle"]
    /\ ctx = [c \in Coroutines |-> IdleCtx]
    /\ ret = NoReturn
    /\ c_scraper = "none"
    /\ c_is_updating = FALSE
    /\ blood_banks = {}
    /\ availability = {}
    /\ donors = {}
    /\ b_scraper = "none"
    /\ b_is_updating = FALSE
    /\ last_updated = Never
    /\ cached_availability = <<>>
    /\ cached_blood_banks = <<>>

\* `self._is_cache_expired(db)` is evaluated (line 76) and its value kept.
CheckCacheExpired ==
    /\ ret = NoReturn
    /\ ret' = Returned("cached", FALSE,
                       IF IsCacheExpired(metrics, now) THEN "True" ELSE "False",
                       "is_cache_expired")
    /\ UNCHANGED <<now, stamp, pc, ctx>>
    /\ UNCHANGED cachedSvcVars
    /\ UNCHANGED backupSvcVars
    /\ UNCHANGED <<fbVars, mVars, uVars, lpVars>>

-----------------------------------------------------------------------------
(* DonorMatcher, app/ml/matching/donor_matcher.py.  Sub-scores are kept in  *)
(* percent (the values of the DonorScore fields) and total_score in         *)
(* hundredths of a point, so that every score of the model is an integer.   *)

MaxPool == 3            \* donors in a pool
MaxRequests == 2        \* requests in a batch

\* A key that the dict does not carry.
NoGroup == "absent"
NoLocation == 0
NoDonation == -1

\* A variant whose O+ row is that of a universal donor.
CompatibilityMatrixRhBlind(donor_blood_group) ==
    CASE donor_blood_group \in {"O-", "O+"} ->
             {"O-", "O+", "A-", "A+", "B-", "B+", "AB-", "AB+"}
      [] donor_blood_group = "A-" -> {"A-", "A+", "AB-", "AB+"}
      [] donor_blood_group = "A+" -> {"A+", "AB+"}
      [] donor_blood_group = "B-" -> {"B-", "B+", "AB-", "AB+"}
      [] donor_blood_group = "B+" -> {"B+", "AB+"}
      [] donor_blood_group = "AB-" -> {"AB-", "AB+"}
      [] donor_blood_group = "AB+" -> {"AB+"}
      [] OTHER -> {}

\* self.compatibility_matrix: donor blood group -> recipients (lines 30-39).
CompatibilityMatrix(donor_blood_group) ==
    CASE donor_blood_group = "O-" ->
             {"O-", "O+", "A-", "A+", "B-", "B+", "AB-", "AB+"}
      [] donor_blood_group = "O+" -> {"O+", "A+", "B+", "AB+"}
      [] donor_blood_group = "A-" -> {"A-", "A+", "AB-", "AB+"}
      [] donor_blood_group = "A+" -> {"A+", "AB+"}
      [] donor_blood_group = "B-" -> {"B-", "B+", "AB-", "AB+"}
      [] donor_blood_group = "B+" -> {"B+", "AB+"}
      [] donor_blood_group = "AB-" -> {"AB-", "AB+"}
      [] donor_blood_group = "AB+" -> {"AB+"}
      [] OTHER -> {}

\* dict.get("blood_group", "O+")
BloodGroupOrDefault(blood_group) ==
    IF blood_group = NoGroup THEN "O+" ELSE blood_group

\* A variant that forgets the membership test.
CalculateCompatibilityScoreNoTable(donor_blood_group, patient_blood_group) ==
    IF donor_blood_group = patient_blood_group THEN 100
    ELSE IF donor_blood_group = "O-" THEN 95
    ELSE 80

\* _calculate_compatibility_score (lines 160-184).
CalculateCompatibilityScore(donor_blood_group, patient_blood_group) ==
    IF patient_blood_group \in CompatibilityMatrix(donor_blood_group)
      THEN IF donor_blood_group = patient_blood_group THEN 100
           ELSE IF donor_blood_group = "O-" THEN 95
           ELSE 80
      ELSE 0

\* _calculate_distance for two points of one meridian, given by their
\* position on it in km.
CalculateDistance(point1, point2) ==
    IF point1 >= point2 THEN point1 - point2 ELSE point2 - point1

Max(a, b) == IF a >= b THEN a ELSE b
Min(a, b) == IF a <= b THEN a ELSE b

\* _calculate_distance_score (lines 186-217).
CalculateDistanceScore(donor_location, patient_location, max_distance) ==
    IF donor_location = NoLocation \/ patient_location = NoLocation THEN 50
    ELSE LET distance_km == CalculateDistance(donor_location, patient_location)
         IN IF distance_km > max_distance THEN 0
            ELSE Max(10, 100 - (100 * distance_km) \div max_distance)

\* _calculate_availability_score (lines 219-276) for a donor with the
\* default is_active and availability_preferences and a request without
\* needed_by.
CalculateAvailabilityScore(donor) ==
    LET active == 50 + 20
    IN IF donor.days_since_donation # NoDonation
            /\ donor.days_since_donation < 84
         THEN 0
         ELSE Min(100, active + 30 + 10)

\* _calculate_reliability_score (lines 278-317) with the default
\* response_rate 0.8 and completion_rate 0.9 and no last_active_date.
CalculateReliabilityScore(donor) ==
    LET count == donor.total_donations
        bonus == IF count >= 10 THEN 30
                 ELSE IF count >= 5 THEN 20
                 ELSE IF count >= 1 THEN 10 ELSE 0
    IN Min(100, 50 + bonus + 12 + 16)

\* _calculate_urgency_bonus (lines 319-350).
CalculateUrgencyBonus(donor, urgency_level, patient_requirements) ==
    IF urgency_level = "low" THEN 0
    ELSE LET volunteer ==
                 IF ~donor.emergency_volunteer THEN 0
                 ELSE IF urgency_level = "critical" THEN 80
                 ELSE IF urgency_level = "high" THEN 60
                 ELSE IF urgency_level = "medium" THEN 30 ELSE 0
             rare == IF patient_requirements.blood_group \in {"AB-", "B-", "A-"}
                        /\ donor.blood_group = patient_requirements.blood_group
                       THEN 50 ELSE 0
         IN Min(100, volunteer + rare)

NoMaxDistance == 0
DefaultMaxDistanceKm == 50

\* patient_requirements.get("max_distance_km", 50)
MaxDistanceOrDefault(max_distance_km) ==
    IF max_distance_km = NoMaxDistance THEN DefaultMaxDistanceKm
    ELSE max_distance_km

\* _calculate_donor_score (lines 80-158): the DonorScore of a donor.  The
\* distance limit is read from patient_requirements, never from the caller.
CalculateDonorScore(donor, patient_requirements, urgency_level) ==
    LET compatibility_score ==
            CalculateCompatibilityScore(
                BloodGroupOrDefault(donor.blood_group),
                BloodGroupOrDefault(patient_requirements.blood_group))
        distance_score ==
            CalculateDistanceScore(
                donor.location, patient_requirements.location,
                MaxDistanceOrDefault(patient_requirements.max_distance_km))
        availability_score == CalculateAvailabilityScore(donor)
        reliability_score == CalculateReliabilityScore(donor)
        urgency_bonus ==
            CalculateUrgencyBonus(donor, urgency_level, patient_requirements)
    IN [donor_id |-> donor.id,
        total_score |-> compatibility_score * 40 + distance_score * 25
                          + availability_score * 20 + reliability_score * 10
                          + urgency_bonus * 5,
        compatibility_score |-> compatibility_score,
        distance_score |-> distance_score,
        availability_score |-> availability_score,
        reliability_score |-> reliability_score,
        urgency_bonus |-> urgency_bonus]

\* A variant that leaves the list in pool order.
SortByTotalScoreUnsorted(scores) == scores

\* compatible_donors.sort(key=lambda x: x.total_score, reverse=True)
\* (line 76): list.sort is stable, also with reverse=True.
RECURSIVE SortByTotalScore(_)
SortByTotalScore(scores) ==
    IF scores = <<>> THEN <<>>
    ELSE LET n == Len(scores)
             x == scores[n]
             rest == SortByTotalScore(SubSeq(scores, 1, n - 1))
             k == Cardinality({i \in 1..Len(rest) :
                                  rest[i].total_score >= x.total_score})
         IN SubSeq(rest, 1, k) \o <<x>> \o SubSeq(rest, k + 1, Len(rest))

\* find_compatible_donors (lines 50-78).  max_distance_km is accepted and
\* not used.
FindCompatibleDonors(patient_requirements, available_donors, max_distance_km, urgency_level) ==
    LET scores == [i \in 1..Len(available_donors) |->
                     CalculateDonorScore(available_donors[i],
                                         patient_requirements, urgency_level)]
        compatible_donors ==
            SelectSeq(scores, LAMBDA score : /\ score.compatibility_score > 0
                                             /\ score.distance_score > 0)
    IN SortByTotalScore(compatible_donors)

\* A variant that ranks every urgency level alike.
GetUrgencyPriorityFlat(urgency_level) == 2

\* _get_urgency_priority (lines 419-427).
GetUrgencyPriority(urgency_level) ==
    CASE urgency_level = "critical" -> 4
      [] urgency_level = "high" -> 3
      [] urgency_level = "medium" -> 2
      [] urgency_level = "low" -> 1
      [] OTHER -> 2

\* sorted(requests, key=priority, reverse=True) (lines 386-390): stable.
RECURSIVE SortedRequests(_)
SortedRequests(requests) ==
    IF requests = <<>> THEN <<>>
    ELSE LET n == Len(requests)
             x == requests[n]
             rest == SortedRequests(SubSeq(requests, 1, n - 1))
             k == Cardinality({i \in 1..Len(rest) :
                                  GetUrgencyPriority(rest[i].urgency_level)
                                    >= GetUrgencyPriority(x.urgency_level)})
         IN SubSeq(rest, 1, k) \o <<x>> \o SubSeq(rest, k + 1, Len(rest))

\* A variant that offers every donor to every request.
AvailableForRequestUnfiltered(available_donors, used_donors) == available_donors

\* The donors not in used_donors (lines 398-401).
AvailableForRequest(available_donors, used_donors) ==
    SelectSeq(available_donors, LAMBDA donor : donor.id \notin used_donors)

\* The ids added to used_donors after a request (lines 412-415).
TopDonors(request, matches) ==
    LET top_donors_needed == Min(request.units_needed, Len(matches))
    IN {matches[i].donor_id : i \in 1..top_donors_needed}

\* The loop of batch_match_requests over sorted_requests from position k
\* (lines 394-415); results is the dict in insertion order.
RECURSIVE BatchLoop(_, _, _, _, _)
BatchLoop(sorted_requests, k, available_donors, used_donors, results) ==
    IF k > Len(sorted_requests) THEN results
    ELSE LET request == sorted_requests[k]
             matches == FindCompatibleDonors(
                            request,
                            AvailableForRequest(available_donors, used_donors),
                            DefaultMaxDistanceKm, request.urgency_level)
         IN BatchLoop(sorted_requests, k + 1, available_donors,
                      used_donors \cup TopDonors(request, matches),
                      Append(results, [request_id |-> request.id,
                                       matches |-> matches]))

\* batch_match_requests (lines 376-417).
BatchMatchRequests(requests, available_donors) ==
    BatchLoop(SortedRequests(requests), 1, available_donors, {}, <<>>)

\* Donors: a universal donor nearby, two equal O+ volunteers can be had by
\* taking the second profile twice, an A+ donor who gave blood 10 days ago,
\* an O+ donor 60 km away, an AB+ donor without coordinates.  Patients are
\* at km 100 of the meridian.
DonorProfiles ==
    { [blood_group |-> "O-", location |-> 110, days_since_donation |-> NoDonation,
       total_donations |-> 0, emergency_volunteer |-> FALSE],
      [blood_group |-> "O+", location |-> 140, days_since_donation |-> NoDonation,
       total_donations |-> 0, emergency_volunteer |-> TRUE],
      [blood_group |-> "A+", location |-> 110, days_since_donation |-> 10,
       total_donations |-> 5, emergency_volunteer |-> FALSE],
      [blood_group |-> "O+", location |-> 160, days_since_donation |-> 100,
       total_donations |-> 10, emergency_volunteer |-> FALSE],
      [blood_group |-> "AB+", location |-> NoLocation,
       days_since_donation |-> NoDonation,
       total_donations |-> 0, emergency_volunteer |-> FALSE] }

RequestProfiles ==
    [blood_group : {"O+", "A+", NoGroup},
     urgency_level : {"critical", "low"},
     units_needed : {1, 2},
     location : {100},
     max_distance_km : {NoMaxDistance}]

\* The id of a donor or request is its position in the list.
WithIds(profiles) ==
    [i \in 1..Len(profiles) |->
        [id |-> i] @@ profiles[i]]

DonorPools == {WithIds(q) : q \in SeqsUpTo(DonorProfiles, MaxPool)}
RequestBatches == {WithIds(q) : q \in SeqsUpTo(RequestProfiles, MaxRequests)}
MaxDistanceArguments == {20, DefaultMaxDistanceKm}

NoCall == [op |-> "none", available_donors |-> <<>>, requests |-> <<>>,
           max_distance_km |-> NoMaxDistance, index |-> 0]
NoOutput == [kind |-> "none", matches |-> <<>>, results |-> <<>>]

\* No matcher call is being made.
MatcherInit ==
    /\ m_pc = "idle"
    /\ m_call = NoCall
    /\ m_out = NoOutput

\* A caller holds a donor pool, a list of requests and a distance limit.
MatcherInputs ==
    /\ m_pc = "idle"
    /\ m_call \in [op : {"none"}, available_donors : DonorPools,
                   requests : RequestBatches,
                   max_distance_km : MaxDistanceArguments, index : {0}]
    /\ m_out = NoOutput

\* find_compatible_donors is called for the index-th request and returns
\* its list; urgency_level is the request's, as batch_match_requests passes
\* it.
FindCompatibleDonorsCall(index) ==
    /\ m_pc = "idle"
    /\ index <= Len(m_call.requests)
    /\ m_call' = [m_call EXCEPT !.op = "find_compatible_donors",
                                !.index = index]
    /\ m_out' = [kind |-> "list",
                 matches |-> FindCompatibleDonors(
                                 m_call.requests[index],
                                 m_call.available_donors,
                                 m_call.max_distance_km,
                                 m_call.requests[index].urgency_level),
                 results |-> <<>>]
    /\ m_pc' = "returned"
    /\ UNCHANGED <<fbVars, rfVars, lpVars, uVars>>

\* batch_match_requests is called and returns its dict.
BatchMatchRequestsCall ==
    /\ m_pc = "idle"
    /\ m_call' = [m_call EXCEPT !.op = "batch_match_requests"]
    /\ m_out' = [kind |-> "dict",
                 matches |-> <<>>,
                 results |-> BatchMatchRequests(m_call.requests,
                                                m_call.available_donors)]
    /\ m_pc' = "returned"
    /\ UNCHANGED <<fbVars, rfVars, lpVars, uVars>>

\* The caller is done with the result.
MatcherReturns ==
    /\ m_pc = "returned"
    /\ m_pc' = "idle"
    /\ m_call' = [m_call EXCEPT !.op = "none", !.index = 0]
    /\ m_out' = NoOutput
    /\ UNCHANGED <<fbVars, rfVars, lpVars, uVars>>

-----------------------------------------------------------------------------
(* DataValidator on records of any content (data_validator.py).  Field     *)
(* values are samples of the classes the validator tells apart.  Address,  *)
(* email, state and unit counts only ever add warnings and are left out.   *)

\* A value that is not a str (a number left by a parser), and None.
NotAString == "<int>"
NoValue == "<None>"

\* The records a validate_batch call of this model holds at most.
MaxValidated == 3

NameValues == {"Red Cross Bank", "red cross", "AB", "", NotAString}
PhoneValues == {"", "+919876543210", "98765 43210", "12345", NotAString}
BloodGroupValues == {"O+", "ab-", "O POS", "X+", ""}

\* A coordinate: None, a number (in degrees) or a text float() rejects.
NoCoordinate == [kind |-> "none", value |-> 0]
LatitudeValues ==
    {NoCoordinate, [kind |-> "number", value |-> 13],
     [kind |-> "number", value |-> 95], [kind |-> "text", value |-> 0]}
LongitudeValues ==
    {NoCoordinate, [kind |-> "number", value |-> 78],
     [kind |-> "number", value |-> 200], [kind |-> "text", value |-> 0]}

\* len(text.strip()) of the sample names.
StrLen(text) ==
    CASE text = "Red Cross Bank" -> 14
      [] text = "red cross" -> 9
      [] text = "AB" -> 2
      [] OTHER -> 0

\* _clean_text (lines 329-343): whitespace, special characters, title().
CleanText(text) ==
    CASE text = "red cross" -> "Red Cross"
      [] text = "AB" -> "Ab"
      [] OTHER -> text

\* _validate_and_clean_phone (lines 361-387): "" for an empty value, the
\* +91 form for a number matching one of the Indian patterns once every
\* character but digits and + is removed, "" otherwise.
ValidateAndCleanPhone(phone) ==
    CASE phone \in {"+919876543210", "98765 43210"} -> "+919876543210"
      [] OTHER -> ""

\* str.strip().upper() of the sample blood groups.
StripUpper(text) ==
    CASE text = "ab-" -> "AB-"
      [] OTHER -> text

\* _fix_blood_group (lines 389-415): the table of spelled-out groups.
FixBloodGroup(text) ==
    CASE text = "O POS" -> "O+"
      [] OTHER -> NoValue

Tag(cond, tag) == IF cond THEN <<tag>> ELSE <<>>

\* float(x) raises ValueError or TypeError.
NotANumber(x) == x.kind = "text"
OutOfRange(x, bound) == x.kind = "number" /\ ~(-bound <= x.value /\ x.value <= bound)
CleanCoordinate(x, bound) ==
    IF x.kind = "number" /\ ~OutOfRange(x, bound) THEN x ELSE NoCoordinate

\* The result of a validation that raised instead of returning.
RaisedResult ==
    [raised |-> TRUE, errors |-> <<>>, warnings |-> <<>>,
     cleaned_data |-> NoValue]

\* validate_blood_bank_info (lines 58-153).  A name or contact that is not
\* a str makes .strip() or re.sub raise.
BloodBankValidation(blood_bank) ==
    IF blood_bank.name = NotAString \/ blood_bank.contact = NotAString
      THEN RaisedResult
    ELSE
    LET name_bad == blood_bank.name = "" \/ StrLen(blood_bank.name) < 3
        cleaned_contact == ValidateAndCleanPhone(blood_bank.contact)
    IN [raised |-> FALSE,
        errors |-> Tag(name_bad, "name")
                   \o Tag(OutOfRange(blood_bank.latitude, 90), "latitude")
                   \o Tag(OutOfRange(blood_bank.longitude, 180), "longitude"),
        warnings |-> Tag(~name_bad /\ CleanText(blood_bank.name) # blood_bank.name,
                         "name")
                     \o Tag(cleaned_contact # blood_bank.contact, "contact")
                     \o Tag(NotANumber(blood_bank.latitude), "latitude")
                     \o Tag(NotANumber(blood_bank.longitude), "longitude"),
        cleaned_data |->
            [name |-> IF name_bad THEN blood_bank.name
                                  ELSE CleanText(blood_bank.name),
             contact |-> cleaned_contact,
             latitude |-> CleanCoordinate(blood_bank.latitude, 90),
             longitude |-> CleanCoordinate(blood_bank.longitude, 180)]]

\* validate_blood_availability (lines 155-245).
BloodAvailabilityValidation(item) ==
    IF item.blood_bank_name = NotAString
         \/ item.contact = NotAString
      THEN RaisedResult
    ELSE
    LET group == StripUpper(item.blood_group)
        known == group \in VALID_BLOOD_GROUPS
        fixed == FixBloodGroup(group)
        name_bad == StrLen(item.blood_bank_name) < 3
        cleaned_contact == ValidateAndCleanPhone(item.contact)
    IN [raised |-> FALSE,
        errors |-> Tag(~known /\ fixed = NoValue, "blood_group")
                   \o Tag(name_bad, "blood_bank_name"),
        warnings |-> Tag(~known /\ fixed # NoValue, "blood_group")
                     \o Tag(cleaned_contact = "" /\ item.contact # "",
                            "contact"),
        cleaned_data |->
            [blood_bank_name |-> IF name_bad THEN item.blood_bank_name
                                 ELSE CleanText(item.blood_bank_name),
             blood_group |-> IF known THEN group
                             ELSE IF fixed # NoValue THEN fixed
                             ELSE item.blood_group,
             contact |-> cleaned_contact]]

\* validate_donor_data (lines 247-327).
DonorDataValidation(donor) ==
    IF donor.name = NotAString \/ donor.phone = NotAString
      THEN RaisedResult
    ELSE
    LET group == StripUpper(donor.blood_group)
        known == group \in VALID_BLOOD_GROUPS
        fixed == FixBloodGroup(group)
        name_bad == StrLen(donor.name) < 2
        cleaned_phone == ValidateAndCleanPhone(donor.phone)
    IN [raised |-> FALSE,
        errors |-> Tag(name_bad, "name"),
        warnings |-> Tag(group # "" /\ ~known, "blood_group")
                     \o Tag(cleaned_phone = "" /\ donor.phone # "", "phone")
                     \o Tag(NotANumber(donor.latitude)
                              \/ OutOfRange(donor.latitude, 90), "latitude")
                     \o Tag(NotANumber(donor.longitude)
                              \/ OutOfRange(donor.longitude, 180), "longitude"),
        cleaned_data |->
            [name |-> IF name_bad THEN donor.name ELSE CleanText(donor.name),
             blood_group |-> IF group = "" THEN donor.blood_group
                             ELSE IF known THEN group
                             ELSE IF fixed # NoValue THEN fixed
                             ELSE "Unknown",
             phone |-> cleaned_phone,
             latitude |-> CleanCoordinate(donor.latitude, 90),
             longitude |-> CleanCoordinate(donor.longitude, 180)]]

ValidatedTypes == {"blood_bank", "blood_availability", "donor"}

\* The validation validate_batch picks for a data type (lines 486-491).
ValidationOf(item, data_type) ==
    CASE data_type = "blood_bank" -> BloodBankValidation(item)
      [] data_type = "blood_availability" -> BloodAvailabilityValidation(item)
      [] data_type = "donor" -> DonorDataValidation(item)

\* A variant in which a warning rejects the record as an error does.
IsValidResultStrict(res) ==
    ~res.raised /\ res.errors = <<>> /\ res.warnings = <<>>

\* ValidationResult.is_valid (lines 149, 241, 323): len(errors) == 0.
IsValidResult(res) == ~res.raised /\ res.errors = <<>>

\* validate_batch (lines 472-519).  An unknown data type is logged and the
\* record skipped: it reaches neither bucket.
RECURSIVE ValidateBatchLoop(_, _, _, _)
ValidateBatchLoop(data_list, data_type, i, acc) ==
    IF i > Len(data_list) THEN acc
    ELSE IF data_type \notin ValidatedTypes
      THEN ValidateBatchLoop(data_list, data_type, i + 1, acc)
    ELSE
    LET res == ValidationOf(data_list[i], data_type)
        next ==
          IF IsValidResult(res)
            THEN [acc EXCEPT
                    !.valid_items = Append(@, res.cleaned_data),
                    !.results = Append(@, res),
                    !.stats.valid = @ + 1,
                    !.stats.warnings = @ + Len(res.warnings),
                    !.stats.errors = @ + Len(res.errors)]
            ELSE [acc EXCEPT
                    !.invalid_items =
                        Append(@, [original_data |-> data_list[i],
                                   errors |-> IF res.raised
                                                THEN <<"Validation error">>
                                                ELSE res.errors,
                                   warnings |-> res.warnings]),
                    !.results = Append(@, res),
                    !.stats.invalid = @ + 1,
                    !.stats.warnings = @ + Len(res.warnings),
                    !.stats.errors = @ + Len(res.errors)]
    IN ValidateBatchLoop(data_list, data_type, i + 1, next)

ValidateBatchFull(data_list, data_type) ==
    ValidateBatchLoop(data_list, data_type, 1,
        [valid_items |-> <<>>, invalid_items |-> <<>>, results |-> <<>>,
         stats |-> [total |-> Len(data_list), valid |-> 0, invalid |-> 0,
                    warnings |-> 0, errors |-> 0]])

\* Every record of each type over the sample values.
BloodBankRecords ==
    [name : NameValues, contact : PhoneValues, latitude : LatitudeValues,
     longitude : LongitudeValues]
BloodAvailabilityRecords ==
    [blood_bank_name : NameValues, blood_group : BloodGroupValues,
     contact : PhoneValues]
DonorRecords ==
    [name : NameValues, blood_group : BloodGroupValues, phone : PhoneValues,
     latitude : LatitudeValues, longitude : LongitudeValues]

\* A few records of each type to make batches of: a clean one, one with
\* warnings only, one with an error, one that makes the validation raise.
BloodBankSamples ==
    {[name |-> "Red Cross Bank", contact |-> "+919876543210",
      latitude |-> NoCoordinate, longitude |-> NoCoordinate],
     [name |-> "red cross", contact |-> "12345",
      latitude |-> [kind |-> "text", value |-> 0], longitude |-> NoCoordinate],
     [name |-> "AB", contact |-> "", latitude |-> NoCoordinate,
      longitude |-> NoCoordinate],
     [name |-> NotAString, contact |-> "", latitude |-> NoCoordinate,
      longitude |-> NoCoordinate]}
BloodAvailabilitySamples ==
    {[blood_bank_name |-> "Red Cross Bank", blood_group |-> "O+",
      contact |-> "+919876543210"],
     [blood_bank_name |-> "Red Cross Bank", blood_group |-> "O POS",
      contact |-> "12345"],
     [blood_bank_name |-> "Red Cross Bank", blood_group |-> "X+",
      contact |-> ""],
     [blood_bank_name |-> "Red Cross Bank", blood_group |-> "O+",
      contact |-> NotAString]}
DonorSamples ==
    {[name |-> "Red Cross Bank", blood_group |-> "O+",
      phone |-> "+919876543210", latitude |-> NoCoordinate,
      longitude |-> NoCoordinate],
     [name |-> "red cross", blood_group |-> "X+", phone |-> "12345",
      latitude |-> [kind |-> "number", value |-> 95],
      longitude |-> NoCoordinate],
     [name |-> "", blood_group |-> "O+", phone |-> "",
      latitude |-> NoCoordinate, longitude |-> NoCoordinate],
     [name |-> NotAString, blood_group |-> "O+", phone |-> "",
      latitude |-> NoCoordinate, longitude |-> NoCoordinate]}

RecordsOf(data_type) ==
    CASE data_type = "blood_bank" -> BloodBankRecords
      [] data_type = "blood_availability" -> BloodAvailabilityRecords
      [] OTHER -> DonorRecords
SamplesOf(data_type) ==
    CASE data_type = "blood_bank" -> BloodBankSamples
      [] data_type = "blood_availability" -> BloodAvailabilitySamples
      [] OTHER -> DonorSamples

\* No validate_batch call made.
NoValidation ==
    [pc |-> "idle", data_type |-> "-", data_list |-> <<>>,
     valid_items |-> <<>>, invalid_items |-> <<>>, results |-> <<>>,
     stats |-> [total |-> 0, valid |-> 0, invalid |-> 0, warnings |-> 0,
                errors |-> 0]]

ValidationInit == validation = NoValidation

\* The arguments of a validate_batch call: any single record, or a batch
\* of sample records; the data type is one of the three or a name
\* validate_batch does not know.
ValidationInputs ==
    \E data_type \in ValidatedTypes \cup {"hospital"} :
      \E data_list \in {<<x>> : x \in RecordsOf(data_type)}
                        \cup SeqsUpTo(SamplesOf(data_type), MaxValidated) :
        validation = [NoValidation EXCEPT !.pc = "called",
                                          !.data_type = data_type,
                                          !.data_list = data_list]

\* validate_batch runs: it has no await and returns its three values.
ValidateBatchCall ==
    /\ validation.pc = "called"
    /\ LET out == ValidateBatchFull(validation.data_list, validation.data_type)
       IN validation' = [validation EXCEPT !.pc = "returned",
                                           !.valid_items = out.valid_items,
                                           !.invalid_items = out.invalid_items,
                                           !.results = out.results,
                                           !.stats = out.stats]
    /\ UNCHANGED <<fbVars, rfVars, mVars, lpVars, lookup, scoring, otpVars>>

-----------------------------------------------------------------------------
(* DonorMatcher._calculate_availability_score on any donor and deadline.   *)
(* Scores are in hundredths.                                               *)

\* A date field: absent, a date the code can subtract from now (days since
\* it, or hours until it), or a text on which the try block fails (not ISO,
\* or with a time zone, which cannot be subtracted from datetime.now()).
NoDate == [kind |-> "none", n |-> 0]
DateAt(n) == [kind |-> "date", n |-> n]
BadDate == [kind |-> "text", n |-> 0]

LastDonationValues == {NoDate, DateAt(10), DateAt(84), BadDate}
NeededByValues ==
    {NoDate, DateAt(2), DateAt(5), DateAt(6), DateAt(23), DateAt(24), BadDate}

\* _calculate_availability_score (lines 219-276).
AvailabilityScoreOf(donor, needed_by) ==
    LET active == 50 + (IF donor.is_active THEN 20 ELSE 0)
        eligible ==
            IF donor.last_donation_date.kind = "date"
              THEN IF donor.last_donation_date.n >= 84 THEN 30 ELSE -1
            ELSE IF donor.last_donation_date.kind = "none" THEN 30
            ELSE 0
        preferences ==
            (IF donor.emergency_available THEN 20 ELSE 0)
              + (IF donor.flexible_schedule THEN 10 ELSE 0)
        urgency ==
            IF needed_by.kind # "date" THEN 0
            ELSE IF needed_by.n < 6
              THEN IF donor.emergency_available THEN 20 ELSE 0
            ELSE IF needed_by.n < 24 THEN 10
            ELSE 0
    IN IF eligible = -1 THEN 0
       ELSE Min(100, active + eligible + preferences + urgency)

ScoredDonors ==
    [is_active : BOOLEAN, last_donation_date : LastDonationValues,
     emergency_available : BOOLEAN, flexible_schedule : BOOLEAN]

NoScoring ==
    [pc |-> "idle",
     donor |-> [is_active |-> TRUE, last_donation_date |-> NoDate,
                emergency_available |-> FALSE, flexible_schedule |-> TRUE],
     needed_by |-> NoDate, availability_score |-> 0]

ScoringInit == scoring = NoScoring

\* The arguments of a call: any donor and any deadline.
ScoringInputs ==
    \E donor \in ScoredDonors, needed_by \in NeededByValues :
        scoring = [NoScoring EXCEPT !.pc = "called", !.donor = donor,
                                    !.needed_by = needed_by]

\* The call at line 112 of _calculate_donor_score.
CalculateAvailabilityScoreCall ==
    /\ scoring.pc = "called"
    /\ scoring' = [scoring EXCEPT
                     !.pc = "returned",
                     !.availability_score =
                         AvailabilityScoreOf(scoring.donor, scoring.needed_by)]
    /\ UNCHANGED <<fbVars, rfVars, mVars, lpVars, lookup, validation, otpVars>>

-----------------------------------------------------------------------------
(* OTPService: create_otp, verify_otp, cleanup_expired_otps.  Each is a    *)
(* synchronous function ending in db.commit(); calls come one at a time.   *)

\* settings.OTP_EXPIRY_MINUTES and settings.OTP_MAX_ATTEMPTS.
OtpExpiryMinutes == 10
OtpMaxAttempts == 3

\* Rows in the table, the last minute of the clock and its step.
MaxOtps == 2
MaxOtpMinutes == 20
ClockStepMinutes == 10

PhoneNumbers == {"+919876543210", "+919876543211"}
OtpCodes == {"111111", "222222"}
Purposes == {"login", "registration"}

NoOtpResult ==
    [op |-> "none", phone_number |-> "-", success |-> FALSE,
     message |-> "-", otp_id |-> 0]

OtpInit ==
    /\ otps = <<>>
    /\ utcnow = 0
    /\ otp_result = NoOtpResult

\* OTP.__init__ (models/otp.py:29-33) with the column defaults.
NewOtp(phone_number, otp_code, purpose, expiry_minutes, t) ==
    [phone_number |-> phone_number, otp_code |-> otp_code,
     purpose |-> purpose, created_at |-> t,
     expires_at |-> t + expiry_minutes, verified_at |-> -1,
     is_verified |-> FALSE, attempts |-> 0, is_expired |-> FALSE]

\* A variant that leaves the earlier rows of the phone number alone.
ExpireActiveOtpsNever(table, phone_number) == table

\* create_otp, lines 44-52: mark_expired() on every row of the phone
\* number that is neither verified nor flagged expired, of any purpose.
ExpireActiveOtps(table, phone_number) ==
    [i \in 1..Len(table) |->
        IF /\ table[i].phone_number = phone_number
           /\ ~table[i].is_verified
           /\ ~table[i].is_expired
          THEN [table[i] EXCEPT !.is_expired = TRUE]
          ELSE table[i]]

\* create_otp (lines 34-79); generate_otp draws the code at random.
CreateOtp(phone_number, purpose, otp_code) ==
    /\ Len(otps) < MaxOtps
    /\ otps' = Append(ExpireActiveOtps(otps, phone_number),
                      NewOtp(phone_number, otp_code, purpose,
                             OtpExpiryMinutes, utcnow))
    /\ otp_result' = [op |-> "create_otp", phone_number |-> phone_number,
                      success |-> TRUE, message |-> "created",
                      otp_id |-> Len(otps) + 1]
    /\ UNCHANGED utcnow
    /\ UNCHANGED <<fbVars, rfVars, mVars, lpVars, lookup, validation, scoring>>

\* The rows the query of verify_otp selects (lines 126-131).
VerifiableOtps(phone_number, purpose) ==
    {i \in 1..Len(otps) :
        /\ otps[i].phone_number = phone_number
        /\ otps[i].purpose = purpose
        /\ ~otps[i].is_verified
        /\ ~otps[i].is_expired}

\* order_by(OTP.created_at.desc()).first(): a row with the latest
\* created_at, any of them when several share it.
MostRecentOtps(rows) ==
    {i \in rows : \A j \in rows : otps[j].created_at <= otps[i].created_at}

VerifyFailed(phone_number, message) ==
    [op |-> "verify_otp", phone_number |-> phone_number, success |-> FALSE,
     message |-> message, otp_id |-> 0]

\* verify_otp (lines 116-177).
VerifyOtp(phone_number, otp_code, purpose) ==
    /\ IF VerifiableOtps(phone_number, purpose) = {}
         THEN /\ otp_result' = VerifyFailed(phone_number, "No valid OTP found")
              /\ UNCHANGED otps
       ELSE \E i \in MostRecentOtps(VerifiableOtps(phone_number, purpose)) :
              IF utcnow > otps[i].expires_at
                THEN /\ otps' = [otps EXCEPT ![i].is_expired = TRUE]
                     /\ otp_result' = VerifyFailed(phone_number, "OTP has expired")
              ELSE IF otps[i].attempts + 1 > OtpMaxAttempts
                THEN /\ otps' = [otps EXCEPT ![i].attempts = @ + 1,
                                             ![i].is_expired = TRUE]
                     /\ otp_result' = VerifyFailed(phone_number,
                                           "Maximum verification attempts exceeded")
              ELSE IF otps[i].otp_code # otp_code
                THEN /\ otps' = [otps EXCEPT ![i].attempts = @ + 1]
                     /\ otp_result' = VerifyFailed(phone_number, "Invalid OTP code")
              ELSE /\ otps' = [otps EXCEPT ![i].attempts = @ + 1,
                                           ![i].is_verified = TRUE,
                                           ![i].verified_at = utcnow]
                   /\ otp_result' = [op |-> "verify_otp",
                                     phone_number |-> phone_number,
                                     success |-> TRUE,
                                     message |-> "OTP verified successfully",
                                     otp_id |-> i]
    /\ UNCHANGED utcnow
    /\ UNCHANGED <<fbVars, rfVars, mVars, lpVars, lookup, validation, scoring>>

\* cleanup_expired_otps (lines 179-190).
CleanupExpiredOtps ==
    /\ otps' = [i \in 1..Len(otps) |->
                  IF otps[i].expires_at < utcnow /\ ~otps[i].is_expired
                    THEN [otps[i] EXCEPT !.is_expired = TRUE]
                    ELSE otps[i]]
    /\ otp_result' = [op |-> "cleanup_expired_otps", phone_number |-> "-",
                      success |-> TRUE, message |-> "-", otp_id |-> 0]
    /\ UNCHANGED utcnow
    /\ UNCHANGED <<fbVars, rfVars, mVars, lpVars, lookup, validation, scoring>>

\* Time passes between two calls.
UtcnowAdvances ==
    /\ utcnow < MaxOtpMinutes
    /\ utcnow' = utcnow + ClockStepMinutes
    /\ UNCHANGED <<otps, otp_result>>
    /\ UNCHANGED <<fbVars, rfVars, mVars, lpVars, lookup, validation, scoring>>

-----------------------------------------------------------------------------
(* The blood group tables.                                                 *)

\* The eight keys of compatibility_matrix (donor_matcher.py:31-38).
BloodTypes == {"O-", "O+", "A-", "A+", "B-", "B+", "AB-", "AB+"}

\* compatibility_map of get_compatible_donor_groups
\* (emergency_sos.py:359-368): recipient blood group -> donors.
SosCompatibilityMap(recipient_blood_group) ==
    CASE recipient_blood_group = "A+" -> {"A+", "A-", "O+", "O-"}
      [] recipient_blood_group = "A-" -> {"A-", "O-"}
      [] recipient_blood_group = "B+" -> {"B+", "B-", "O+", "O-"}
      [] recipient_blood_group = "B-" -> {"B-", "O-"}
      [] recipient_blood_group = "AB+" ->
             {"A+", "A-", "B+", "B-", "AB+", "AB-", "O+", "O-"}
      [] recipient_blood_group = "AB-" -> {"A-", "B-", "AB-", "O-"}
      [] recipient_blood_group = "O+" -> {"O+", "O-"}
      [] recipient_blood_group = "O-" -> {"O-"}
      [] OTHER -> {}

\* A variant that leaves the recipient's own group out.
GetCompatibleDonorGroupsOthersOnly(recipient_blood_group) ==
    SosCompatibilityMap(recipient_blood_group) \ {recipient_blood_group}

\* get_compatible_donor_groups (emergency_sos.py:357-370):
\* compatibility_map.get(recipient_blood_group, [recipient_blood_group]).
GetCompatibleDonorGroups(recipient_blood_group) ==
    IF recipient_blood_group \in BloodTypes
      THEN SosCompatibilityMap(recipient_blood_group)
      ELSE {recipient_blood_group}

\* compatibility_map of ERaktkoshService._get_compatible_blood_groups
\* (eraktkosh_service.py:390-399): blood group of the patient -> donors.
ERaktkoshCompatibilityMap(blood_group) ==
    CASE blood_group = "A+" -> {"A+", "A-", "O+", "O-"}
      [] blood_group = "A-" -> {"A-", "O-"}
      [] blood_group = "B+" -> {"B+", "B-", "O+", "O-"}
      [] blood_group = "B-" -> {"B-", "O-"}
      [] blood_group = "AB+" ->
             {"A+", "A-", "B+", "B-", "AB+", "AB-", "O+", "O-"}
      [] blood_group = "AB-" -> {"A-", "B-", "AB-", "O-"}
      [] blood_group = "O+" -> {"O+", "O-"}
      [] blood_group = "O-" -> {"O-"}
      [] OTHER -> {}

\* _get_compatible_blood_groups (eraktkosh_service.py:401-402): the entry
\* of the map, [] for an unknown group, without the group itself.
GetCompatibleBloodGroups(blood_group) ==
    ERaktkoshCompatibilityMap(blood_group) \ {blood_group}

\* "yes" / "no" for a membership test.
Listed(x, S) == IF x \in S THEN "yes" ELSE "no"

\* No pair of blood groups was looked up.
NoLookup ==
    [donor |-> "-", recipient |-> "-", matrix |-> "pending",
     sos |-> "pending", eraktkosh_map |-> "pending",
     eraktkosh_groups |-> "pending"]

LookupInit == lookup = NoLookup

UtilInit == LookupInit /\ ValidationInit /\ ScoringInit /\ OtpInit

\* The groups a caller can pass: the eight blood types and the
\* placeholder the scraper uses for an unreadable group.
LookupGroups == BloodTypes \cup {"Unknown"}

\* A donor group and a recipient group to look up.
LookupInputs ==
    \E d \in LookupGroups, r \in LookupGroups :
        lookup = [NoLookup EXCEPT !.donor = d, !.recipient = r]

\* `patient_blood_group in self.compatibility_matrix.get(donor_blood_group,
\* [])` (donor_matcher.py:171-173).
MatrixLookup ==
    /\ lookup.matrix = "pending"
    /\ lookup' = [lookup EXCEPT !.matrix =
                     Listed(lookup.recipient, CompatibilityMatrix(lookup.donor))]
    /\ UNCHANGED <<fbVars, rfVars, mVars, lpVars, validation, scoring, otpVars>>

\* get_compatible_donor_groups(recipient) is called (emergency_sos.py:331)
\* and the donor group looked for in what it returns.
GetCompatibleDonorGroupsCall ==
    /\ lookup.sos = "pending"
    /\ lookup' = [lookup EXCEPT !.sos =
                     Listed(lookup.donor,
                            GetCompatibleDonorGroups(lookup.recipient))]
    /\ UNCHANGED <<fbVars, rfVars, mVars, lpVars, validation, scoring, otpVars>>

\* _get_compatible_blood_groups(blood_group) is called
\* (eraktkosh_service.py:376); the donor group is looked for in the entry
\* of compatibility_map and in the list returned.
GetCompatibleBloodGroupsCall ==
    /\ lookup.eraktkosh_map = "pending"
    /\ lookup' = [lookup EXCEPT
                     !.eraktkosh_map =
                         Listed(lookup.donor,
                                ERaktkoshCompatibilityMap(lookup.recipient)),
                     !.eraktkosh_groups =
                         Listed(lookup.donor,
                                GetCompatibleBloodGroups(lookup.recipient))]
    /\ UNCHANGED <<fbVars, rfVars, mVars, lpVars, validation, scoring, otpVars>>

-----------------------------------------------------------------------------
(* Specifications.                                                         *)

NextFallback ==
    \/ \E c \in Callers : CallWithBackupFallback(c)
    \/ \E src \in AllPrimarySources : PrimaryCompletes(src)
    \/ \E src \in AllBackupSources : BackupInTryCompletes(src)
    \/ \E src \in AllBackupSources : BackupInExceptCompletes(src)
    \/ EndpointResponds
    \/ FallbackReturns

\* Both services freshly constructed, no call of with_backup_fallback made.
Init == FallbackInit /\ RefreshInit /\ MatcherInit /\ ClientsInit /\ UtilInit

\* with_backup_fallback and the endpoints built on it.
SpecFallback == Init /\ [][NextFallback]_vars

\* The two services are separate objects that share nothing but the clock,
\* so interleaving their cycles adds no behaviour of either: a behaviour
\* exercises one of them (the guards on the scraper of the other service
\* in the two call actions).
NextRefresh ==
    \/ \E c \in Coroutines, force \in BOOLEAN, init_ok \in BOOLEAN :
          UpdateCachedDataCall(c, force, init_ok)
    \/ \E c \in Coroutines, reachable \in BOOLEAN, raw \in AvailBatches :
          CachedAvailabilityScraped(c, reachable, raw)
    \/ \E c \in Coroutines, reachable \in BOOLEAN, raw \in BankBatches,
          same_instant \in BOOLEAN :
          CachedBanksScraped(c, reachable, raw, same_instant)
    \/ \E c \in Coroutines, force \in BOOLEAN, init_ok \in BOOLEAN :
          UpdateBackupDataCall(c, force, init_ok)
    \/ \E c \in Coroutines, reachable \in BOOLEAN, raw \in AvailBatches,
          same_instant \in BOOLEAN :
          BackupAvailabilityScraped(c, reachable, raw, same_instant)
    \/ \E c \in Coroutines, reachable \in BOOLEAN, raw \in BankBatches,
          same_instant \in BOOLEAN :
          BackupBanksScraped(c, reachable, raw, same_instant)
    \/ Tick

\* The refresh cycles of the two services under concurrent callers.
SpecRefresh == Init /\ [][NextRefresh]_vars

NextExpiry == CheckCacheExpired

\* The expiry check over every bounded metrics history.
\* A service whose database holds a metrics history.
InitExpiry == FallbackInit /\ ExpiryInit /\ MatcherInit /\ ClientsInit /\ UtilInit

SpecExpiry == InitExpiry /\ [][NextExpiry]_vars

NextMatch ==
    \/ \E index \in 1..MaxRequests : FindCompatibleDonorsCall(index)
    \/ BatchMatchRequestsCall
    \/ MatcherReturns

\* A caller with any bounded pool and batch.
InitMatch == FallbackInit /\ RefreshInit /\ MatcherInputs /\ ClientsInit /\ UtilInit

\* The matcher applied to every bounded pool and batch.
SpecMatch == InitMatch /\ [][NextMatch]_vars

NextLoop ==
    \/ \E init_ok \in BOOLEAN : RefreshBackupDataIterates(init_ok)
    \/ \E init_ok \in BOOLEAN : StartBackupRefreshTaskIterates(init_ok)
    \/ LoopWakes
    \/ \E c \in Coroutines, reachable \in BOOLEAN, raw \in AvailBatches :
          CachedAvailabilityScraped(c, reachable, raw)
    \/ \E c \in Coroutines, reachable \in BOOLEAN, raw \in BankBatches,
          same_instant \in BOOLEAN :
          CachedBanksScraped(c, reachable, raw, same_instant)
    \/ \E c \in Coroutines, reachable \in BOOLEAN, raw \in AvailBatches,
          same_instant \in BOOLEAN :
          BackupAvailabilityScraped(c, reachable, raw, same_instant)
    \/ \E c \in Coroutines, reachable \in BOOLEAN, raw \in BankBatches,
          same_instant \in BOOLEAN :
          BackupBanksScraped(c, reachable, raw, same_instant)
    \/ \E c \in Coroutines : CycleCancelled(c)
    \/ Tick

\* A service whose refresh loop was just started.
InitLoop ==
    /\ FallbackInit
    /\ RefreshInit
    /\ MatcherInit
    /\ loop \in {LoopReady("cached"), LoopReady("backup")}
    /\ served = NoRead
    /\ UtilInit

\* The background refresh loop of either service, and its cancellation.
SpecLoop == InitLoop /\ [][NextLoop]_vars

\* What a fetch returns while requests are being served: nothing or one
\* record.
BankSamples == SeqsUpTo(BankPool, 1)
AvailSamples == SeqsUpTo(AvailPool, 1)

NextReads ==
    \/ \E c \in Coroutines, op \in BackupReadOps, init_ok \in BOOLEAN :
          GetBackupData(c, op, init_ok)
    \/ \E op \in CachedReadOps : GetCachedData(op)
    \/ \E c \in Coroutines, force \in {TRUE}, init_ok \in BOOLEAN :
          UpdateCachedDataCall(c, force, init_ok)
    \/ \E c \in Coroutines, reachable \in BOOLEAN, raw \in AvailSamples :
          CachedAvailabilityScraped(c, reachable, raw)
    \/ \E c \in Coroutines, reachable \in BOOLEAN, raw \in BankSamples,
          same_instant \in BOOLEAN :
          CachedBanksScraped(c, reachable, raw, same_instant)
    \/ \E c \in Coroutines, reachable \in BOOLEAN, raw \in AvailSamples,
          same_instant \in BOOLEAN :
          BackupAvailabilityScraped(c, reachable, raw, same_instant)
    \/ \E c \in Coroutines, reachable \in BOOLEAN, raw \in BankSamples,
          same_instant \in BOOLEAN :
          BackupBanksScraped(c, reachable, raw, same_instant)
    \/ Tick

\* The read operations of the two services beside their refresh cycles;
\* the tables of CachedBackupService are filled by POST /refresh-backup.
SpecReads == Init /\ [][NextReads]_vars

NextTables ==
    \/ MatrixLookup
    \/ GetCompatibleDonorGroupsCall
    \/ GetCompatibleBloodGroupsCall

\* A caller with any pair of blood groups.
InitTables ==
    /\ FallbackInit
    /\ RefreshInit
    /\ MatcherInit
    /\ ClientsInit
    /\ LookupInputs
    /\ ValidationInit
    /\ ScoringInit
    /\ OtpInit

\* The three blood group tables applied to every pair of groups.
SpecTables == InitTables /\ [][NextTables]_vars

NextValidation == ValidateBatchCall

\* A caller of validate_batch with any bounded batch.
InitValidation ==
    /\ FallbackInit
    /\ RefreshInit
    /\ MatcherInit
    /\ ClientsInit
    /\ LookupInit
    /\ ValidationInputs
    /\ ScoringInit
    /\ OtpInit

\* validate_batch applied to every bounded batch.
SpecValidation == InitValidation /\ [][NextValidation]_vars

NextScoring == CalculateAvailabilityScoreCall

\* A caller of _calculate_availability_score with any donor and deadline.
InitScoring ==
    /\ FallbackInit
    /\ RefreshInit
    /\ MatcherInit
    /\ ClientsInit
    /\ LookupInit
    /\ ValidationInit
    /\ ScoringInputs
    /\ OtpInit

\* _calculate_availability_score applied to every donor and deadline.
SpecScoring == InitScoring /\ [][NextScoring]_vars

NextOtp ==
    \/ \E phone_number \in PhoneNumbers, purpose \in Purposes,
          otp_code \in OtpCodes : CreateOtp(phone_number, purpose, otp_code)
    \/ \E phone_number \in PhoneNumbers, otp_code \in OtpCodes,
          purpose \in Purposes : VerifyOtp(phone_number, otp_code, purpose)
    \/ CleanupExpiredOtps
    \/ UtcnowAdvances

\* Any sequence of OTPService calls on an empty otps table.
SpecOtp == Init /\ [][NextOtp]_vars

-----------------------------------------------------------------------------
(* Properties of with_backup_fallback and of the donor endpoints.          *)

FallbackOver == fb_pc \in {"done", "responded"}

\* C1: when primary_func returns a truthy result (here: a non-empty list),
\* backup_func is never invoked and with_backup_fallback returns exactly
\* the result of primary_func.
C1_PrimaryResultWins ==
    (primaryOut.kind = "list" /\ Len(primaryOut.items) > 0)
        => /\ backupCalls = 0
           /\ backupOut = Pending
           /\ FallbackOver
           /\ result = primaryOut

C1_Witness ==
    /\ fb_pc = "done"
    /\ caller = "direct"
    /\ primaryOut = RetList(<<"p1", "p2">>)
    /\ result = RetList(<<"p1", "p2">>)
    /\ backupCalls = 0

\* C2: when primary_func raises, or returns None or an empty list,
\* backup_func is invoked, and when backup_func then returns, the call
\* returns exactly what backup_func returned and raises nothing.
C2_BackupResultReturned ==
    (FallbackOver /\ primaryOut.kind \in {"raise", "none", "list"}
                  /\ primaryOut.items = <<>>)
        => /\ backupCalls >= 1
           /\ backupOut.kind \in {"none", "list"} => result = backupOut

C2_Witness ==
    /\ fb_pc = "done"
    /\ caller = "direct"
    /\ primaryOut = Raise("EP1")
    /\ backupOut = RetList(<<"b1">>)
    /\ result = RetList(<<"b1">>)

\* C3: when primary_func raises E1 and backup_func raises E2, the exception
\* that leaves with_backup_fallback is E1, the one of primary_func.
C3_PrimaryExceptionPropagates ==
    (FallbackOver /\ primaryOut.kind = "raise" /\ backupOut.kind = "raise")
        => result = Raise(primaryOut.exc)

C3_Witness ==
    /\ fb_pc = "done"
    /\ caller = "direct"
    /\ primaryOut = Raise("EP1")
    /\ backupOut = Raise("EB2")
    /\ result = Raise("EP1")

\* C4: GET /donors/nearby and GET /donors/search answer HTTP 500 when both
\* the primary database query and the backup source fail, and never answer
\* 200 with an empty donor list in that case: an empty 200 answer occurs
\* only when both sources worked and found no donors.
C4_BothSourcesFailIsError ==
    /\ (fb_pc = "responded" /\ srcPrimary.kind = "raise"
                            /\ srcBackup.kind = "raise")
          => response.status = 500
    /\ (fb_pc = "responded" /\ response.status = 200
                            /\ response.donors = <<>>)
          => (srcPrimary = RetList(<<>>) /\ srcBackup = RetList(<<>>))

-----------------------------------------------------------------------------
(* Properties of the refresh cycles.                                       *)

InFlight(svc) ==
    {c \in Coroutines :
        pc[c] \in (IF svc = "cached" THEN {"c_avail", "c_banks"}
                                     ELSE {"b_avail", "b_banks"})}

AtMostOneInFlight ==
    /\ Cardinality(InFlight("cached")) <= 1
    /\ Cardinality(InFlight("backup")) <= 1

\* A call made while a refresh of the same service is in flight returns
\* False and leaves the service, its tables and every coroutine as they are.
SkippedWhileInFlight ==
    \A c \in Coroutines, force \in BOOLEAN, init_ok \in BOOLEAN :
        /\ (InFlight("cached") # {} /\ UpdateCachedDataCall(c, force, init_ok))
              => /\ ret'.value = "False"
                 /\ pc' = pc
                 /\ UNCHANGED cachedSvcVars
        /\ (InFlight("backup") # {} /\ UpdateBackupDataCall(c, force, init_ok))
              => /\ ret'.value = "False"
                 /\ pc' = pc
                 /\ UNCHANGED backupSvcVars

\* C5: for each of the two services at most one call is past the
\* is_updating guard at any time, and every call that starts while a
\* refresh is in flight returns False without scraping or writing, also
\* when it is made with force=True.
C5_SingleFlight == []AtMostOneInFlight /\ [][SkippedWhileInFlight]_vars

C5_Witness ==
    /\ ret.svc = "cached"
    /\ ret.why = "skipped"
    /\ ret.force
    /\ ret.value = "False"
    /\ \E c \in Coroutines : pc[c] = "c_banks"

CachedCycleEnds ==
    \/ \E c \in Coroutines : pc[c] = "c_banks" /\ pc'[c] = "idle"
    \/ /\ ret'.svc = "cached"
       /\ ret'.why = "init_failed"
       /\ stamp' = stamp + 1

\* C7: every started update cycle of CachedBackupService appends exactly
\* one BackupDataMetrics record, also when it fails at scraper
\* initialisation, scraping, validation or storing; nothing else (a skipped
\* call in particular) appends one.
C7_OneMetricsRowPerCycle ==
    [][ IF CachedCycleEnds
          THEN Len(metrics') = Len(metrics) + 1
          ELSE metrics' = metrics ]_vars

RowsNamed(table, name) == {r \in table : r.data.name = name}

\* C8: when a cycle re-scrapes a blood bank whose source fields are those
\* of a row already stored, the row is found under the same external_id and
\* updated: the number of rows of that blood bank does not grow.
C8_RescrapeKeepsRowCount ==
    [][ \A c \in Coroutines :
          (pc[c] = "c_banks" /\ pc'[c] = "idle" /\ ret'.banks_committed)
            => \A i \in DOMAIN ret'.valid_blood_banks :
                 LET name == ret'.valid_blood_banks[i].name IN
                 RowsNamed(blood_banks, name) # {}
                   => Cardinality(RowsNamed(blood_banks', name))
                        = Cardinality(RowsNamed(blood_banks, name)) ]_vars

ActiveData(table) == {r.data : r \in {x \in table : x.is_active}}

\* C9: after a store step that ran to its commit, the active rows of the
\* table are exactly the records validated in that cycle; every row of an
\* earlier generation that the cycle did not confirm is inactive.
C9_ActiveRowsAreThisCycle ==
    [][ \A c \in Coroutines :
          (pc[c] = "c_banks" /\ pc'[c] = "idle")
            => /\ ret'.banks_committed
                    => ActiveData(blood_banks') = Range(ret'.valid_blood_banks)
               /\ ret'.avail_committed
                    => ActiveData(availability') = Range(ret'.valid_availability)
      ]_vars

C9_Witness ==
    /\ ret.svc = "cached"
    /\ ret.why = "completed"
    /\ ret.banks_committed
    /\ Len(ret.valid_blood_banks) = 1
    /\ \E r \in blood_banks : ~r.is_active
    /\ ActiveData(blood_banks) = Range(ret.valid_blood_banks)

\* C10: when the source is unreachable during a cycle (every fetch fails),
\* the records that were active before the cycle are still served by
\* get_cached_blood_banks, get_cached_availability and get_cached_donors,
\* and the metrics record of the cycle is marked unsuccessful.
C10_UnreachableKeepsSnapshot ==
    [][ \A c \in Coroutines :
          (pc[c] = "c_banks" /\ pc'[c] = "idle" /\ ret'.unreachable)
            => /\ GetCachedBloodBanks \subseteq GetCachedBloodBanks'
               /\ GetCachedAvailability \subseteq GetCachedAvailability'
               /\ GetCachedDonors \subseteq GetCachedDonors'
               /\ Len(metrics') = Len(metrics) + 1
               /\ ~metrics'[Len(metrics')].update_successful ]_vars

-----------------------------------------------------------------------------
(* Properties of the refresh loop, of a failing availability fetch and of  *)
(* the read operations.                                                    *)

\* C11: in the background refresh loop, after a refresh cycle that failed
\* (the update call ended unsuccessfully) the next attempt is scheduled
\* after the 30-minute delay, and after a cycle that succeeded after the
\* 2-hour delay.
C11_FailedCycleRetriesSoon ==
    loop.pc = "sleeping" =>
        /\ loop.why = "init_failed" => loop.delay = 30
        /\ loop.why = "completed" => loop.delay = 120

\* A cycle of update_cached_data that ran to its end although the
\* availability data failed: its fetch got no answer, or its store step
\* was rolled back.
CompletesWithoutAvailability(c) ==
    /\ pc[c] = "c_banks"
    /\ pc'[c] = "idle"
    /\ ret'.why = "completed"
    /\ ~ret'.avail_reachable \/ ~ret'.avail_committed

\* The blood banks validated in the cycle are what the table serves.
BanksStored ==
    ret'.banks_committed
        => /\ ActiveData(blood_banks') = Range(ret'.valid_blood_banks)
           /\ GetCachedBloodBanks' =
                 {GenerateExternalId(b, "bank") :
                      b \in Range(ret'.valid_blood_banks)}

\* C12 as stated: in update_cached_data, if fetching or processing the
\* blood-availability data raises, the blood-bank data of the same cycle is
\* still scraped, validated and stored: whatever ends the availability
\* fetch, the cycle goes on to the blood banks.
C12_AvailabilityRaiseKeepsBanks ==
    [][ \A c \in Coroutines :
          /\ (pc[c] = "c_avail" /\ pc'[c] # "c_avail") => pc'[c] = "c_banks"
          /\ CompletesWithoutAvailability(c) => BanksStored ]_vars

\* C12, amended: when the availability fetch fails with an error (every
\* request raises inside the scraper, which answers with no records) or
\* the availability store step fails, the blood-bank data of the same
\* cycle is still scraped, validated and stored; only a cancellation
\* delivered while the availability fetch is awaited ends the cycle
\* before the blood banks are fetched.
C12_AvailabilityErrorKeepsBanks ==
    [][ \A c \in Coroutines :
          /\ (pc[c] = "c_avail" /\ pc'[c] # "c_avail")
                => \/ pc'[c] = "c_banks"
                   \/ ret'.why = "cancelled" /\ ret'.at = "c_avail"
          /\ CompletesWithoutAvailability(c) => BanksStored ]_vars

C12_Witness ==
    /\ ret.svc = "cached"
    /\ ret.why = "completed"
    /\ ~ret.avail_reachable
    /\ ret.banks_committed
    /\ Len(ret.valid_blood_banks) = 1
    /\ ActiveData(blood_banks) = Range(ret.valid_blood_banks)
    /\ availability = {}

\* A step made by a read operation: it enters or leaves its awaited
\* update call, or it returns.
ReadOperationStep ==
    \/ \E c \in Coroutines : ctx[c].reader # ctx'[c].reader
    \/ served' # served

\* C13: the request-serving read operations (get_backup_donors,
\* get_backup_blood_availability, get_backup_blood_banks, get_cached_*)
\* never start a refresh and never modify the cached snapshot or its
\* freshness timestamp.
C13_ReadsLeaveCacheAlone ==
    [][ ReadOperationStep
          => /\ UNCHANGED <<b_is_updating, last_updated, cached_availability,
                            cached_blood_banks>>
             /\ UNCHANGED <<c_is_updating, blood_banks, availability, donors,
                            metrics>> ]_vars

-----------------------------------------------------------------------------
(* Properties of DonorMatcher.                                             *)

FindReturned == m_pc = "returned" /\ m_call.op = "find_compatible_donors"
BatchReturned == m_pc = "returned" /\ m_call.op = "batch_match_requests"

\* The request and the pool of the call, and the donors in its result.
TheRequest == m_call.requests[m_call.index]
ThePool == m_call.available_donors
MatchedIds == {m_out.matches[i].donor_id : i \in DOMAIN m_out.matches}

C15_RecentDonorsExcluded ==
    FindReturned =>
        \A i \in DOMAIN ThePool :
            LET donor == ThePool[i] IN
            (donor.days_since_donation # NoDonation
                /\ donor.days_since_donation < 84)
              => /\ CalculateAvailabilityScore(donor) = 0
                 /\ donor.id \notin MatchedIds

\* C16: no donor with known coordinates whose distance from the patient
\* exceeds the max_distance_km argument of find_compatible_donors appears
\* in the result.
C16_DistanceArgumentApplies ==
    FindReturned =>
        \A i \in DOMAIN ThePool :
            LET donor == ThePool[i] IN
            (donor.location # NoLocation
                /\ CalculateDistance(donor.location, TheRequest.location)
                      > m_call.max_distance_km)
              => donor.id \notin MatchedIds

\* The donors batch_match_requests reserved for the k-th request it
\* processed, and the donors in that request's result.
ReservedFor(k) ==
    LET entry == m_out.results[k]
        request == m_call.requests[entry.request_id]
        n == IF request.units_needed <= Len(entry.matches)
               THEN request.units_needed ELSE Len(entry.matches)
    IN {entry.matches[i].donor_id : i \in 1..n}
OfferedTo(k) ==
    {m_out.results[k].matches[i].donor_id : i \in DOMAIN m_out.results[k].matches}

\* C17: in batch_match_requests a donor among the first
\* min(units_needed, number of matches) entries of the result of a request
\* processed earlier never appears in the result of a request processed
\* later; no donor is reserved for two requests.
C17_ReservedDonorsNotReoffered ==
    BatchReturned =>
        \A k1, k2 \in DOMAIN m_out.results :
            k1 < k2 => /\ ReservedFor(k1) \cap OfferedTo(k2) = {}
                       /\ ReservedFor(k1) \cap ReservedFor(k2) = {}

C17_Witness ==
    /\ BatchReturned
    /\ Len(m_out.results) = 2
    /\ Len(ThePool) = 3
    /\ Cardinality(ReservedFor(1)) = 2
    /\ Cardinality(OfferedTo(2)) = 1

\* critical > high > medium > low.
UrgencyRank(urgency_level) ==
    CASE urgency_level = "critical" -> 4
      [] urgency_level = "high" -> 3
      [] urgency_level = "medium" -> 2
      [] urgency_level = "low" -> 1

\* The request whose result is the k-th entry of the dict, and the batch
\* without the requests strictly less urgent than it.
RequestOf(k) == m_call.requests[m_out.results[k].request_id]
WithoutLessUrgent(k) ==
    SelectSeq(m_call.requests,
              LAMBDA r : UrgencyRank(r.urgency_level)
                            >= UrgencyRank(RequestOf(k).urgency_level))
ResultIn(results, request_id) ==
    LET k == CHOOSE i \in DOMAIN results : results[i].request_id = request_id
    IN results[k].matches

C19_SortedStable ==
    FindReturned =>
        \A i, j \in DOMAIN m_out.matches :
            i < j => /\ m_out.matches[i].total_score >= m_out.matches[j].total_score
                     /\ m_out.matches[i].total_score = m_out.matches[j].total_score
                           => m_out.matches[i].donor_id < m_out.matches[j].donor_id

C19_Witness ==
    /\ FindReturned
    /\ Len(m_out.matches) = 3
    /\ m_out.matches[1].donor_id = 3
    /\ m_out.matches[2].total_score = m_out.matches[3].total_score
    /\ m_out.matches[2].donor_id = 1
    /\ m_out.matches[1].total_score > m_out.matches[2].total_score

\* C20: find_compatible_donors and batch_match_requests, called with a
\* request that carries no blood group, fail with an explicit error and
\* never return a scored donor list for it.
C20_MissingBloodGroupFails ==
    /\ (FindReturned /\ TheRequest.blood_group = NoGroup)
          => m_out.kind = "error"
    /\ (BatchReturned /\ \E i \in DOMAIN m_call.requests :
                            m_call.requests[i].blood_group = NoGroup)
          => m_out.kind = "error"

-----------------------------------------------------------------------------
(* Properties of the blood group tables.                                   *)

\* The ABO antigens of a blood type and its Rh factor.
AboAntigens(blood_type) ==
    CASE blood_type \in {"A-", "A+"} -> {"A"}
      [] blood_type \in {"B-", "B+"} -> {"B"}
      [] blood_type \in {"AB-", "AB+"} -> {"A", "B"}
      [] OTHER -> {}
RhPositive(blood_type) == blood_type \in {"O+", "A+", "B+", "AB+"}

\* The transfusion rule: the donor has no antigen the recipient lacks.
MayGiveTo(d, r) ==
    /\ AboAntigens(d) \subseteq AboAntigens(r)
    /\ ~RhPositive(d) \/ RhPositive(r)

BothBloodTypes == lookup.donor \in BloodTypes /\ lookup.recipient \in BloodTypes

\* C21: compatibility_matrix equals the ABO/Rh transfusion rule on all 64
\* (donor, recipient) pairs: d may give to r iff d's ABO antigens are a
\* subset of r's and d is Rh-negative or r is Rh-positive; every type gives
\* to itself, O- gives to all 8 types and AB+ receives from all 8 types.
C21_MatrixIsTransfusionRule ==
    (BothBloodTypes /\ lookup.matrix # "pending") =>
        /\ lookup.matrix = "yes" <=> MayGiveTo(lookup.donor, lookup.recipient)
        /\ lookup.donor = lookup.recipient => lookup.matrix = "yes"
        /\ lookup.donor = "O-" => lookup.matrix = "yes"
        /\ lookup.recipient = "AB+" => lookup.matrix = "yes"

C21_Witness ==
    /\ lookup.donor = "O+"
    /\ lookup.recipient = "A-"
    /\ lookup.matrix = "no"

\* C22: the recipient-to-donor tables (get_compatible_donor_groups of
\* emergency_sos.py and compatibility_map of
\* ERaktkoshService._get_compatible_blood_groups) are the exact inverse of
\* compatibility_matrix: for all 8 blood types d and r, d is listed as a
\* donor for r iff r is listed as a recipient of d.
C22_TablesAreInverse ==
    (BothBloodTypes /\ lookup.matrix # "pending") =>
        /\ lookup.sos # "pending" => lookup.sos = lookup.matrix
        /\ lookup.eraktkosh_map # "pending"
              => lookup.eraktkosh_map = lookup.matrix

C22_Witness ==
    /\ lookup.donor = "A-"
    /\ lookup.recipient = "A-"
    /\ lookup.matrix = "yes"
    /\ lookup.sos = "yes"
    /\ lookup.eraktkosh_map = "yes"
    /\ lookup.eraktkosh_groups = "no"


-----------------------------------------------------------------------------
(* Properties of DataValidator.                                            *)

ValidationReturned ==
    validation.pc = "returned" /\ validation.data_type \in ValidatedTypes

\* The positions of the batch whose validation returned without errors.
ErrorFree ==
    {i \in 1..Len(validation.results) :
        ~validation.results[i].raised /\ validation.results[i].errors = <<>>}

\* C23: for the three data types validate_batch validates every record of
\* the batch and puts it in exactly one bucket: the valid bucket holds, in
\* order, the cleaned data of the records whose validation returned no
\* errors (warnings or not), the invalid bucket the records whose validation
\* returned errors or raised, and stats.valid + stats.invalid = stats.total.
C23_EveryRecordInOneBucket ==
    ValidationReturned =>
      LET n == Len(validation.data_list)
          rejected == (1..n) \ ErrorFree
      IN /\ Len(validation.results) = n
         /\ Len(validation.valid_items) = Cardinality(ErrorFree)
         /\ Len(validation.invalid_items) = Cardinality(rejected)
         /\ Range(validation.valid_items)
              = {validation.results[i].cleaned_data : i \in ErrorFree}
         /\ {x.original_data : x \in Range(validation.invalid_items)}
              = {validation.data_list[i] : i \in rejected}
         /\ validation.stats.total = n
         /\ validation.stats.valid = Len(validation.valid_items)
         /\ validation.stats.invalid = Len(validation.invalid_items)
         /\ validation.stats.valid + validation.stats.invalid
              = validation.stats.total

\* A batch of three: a record with warnings only was kept, and the records
\* after one whose validation raised were still handled.
C23_Witness ==
    /\ ValidationReturned
    /\ Len(validation.data_list) = 3
    /\ validation.results[1].raised
    /\ ~validation.results[2].raised
    /\ validation.results[2].errors = <<>>
    /\ validation.results[2].warnings # <<>>
    /\ validation.results[3].errors # <<>>
    /\ Len(validation.valid_items) = 1
    /\ Len(validation.invalid_items) = 2

\* What the claim calls malformed, on the input record itself.
MalformedBloodGroup(item) ==
    "blood_group" \in DOMAIN item /\ item.blood_group = "X+"
MalformedPhone(item) ==
    \/ "contact" \in DOMAIN item /\ item.contact = "12345"
    \/ "phone" \in DOMAIN item /\ item.phone = "12345"
BadCoordinate(x, bound) ==
    x.kind = "text" \/ (x.kind = "number" /\ (x.value < -bound \/ x.value > bound))
MalformedCoordinates(item) ==
    /\ "latitude" \in DOMAIN item
    /\ BadCoordinate(item.latitude, 90) \/ BadCoordinate(item.longitude, 180)
Malformed(item) ==
    MalformedBloodGroup(item) \/ MalformedPhone(item) \/ MalformedCoordinates(item)

\* C24: a record with a malformed blood group, a malformed phone or contact
\* number, or a coordinate that is out of range or not a number is never
\* among the valid items validate_batch returns.
C24_MalformedRecordsRejected ==
    (ValidationReturned /\ Len(validation.data_list) = 1
       /\ Malformed(validation.data_list[1]))
      => validation.valid_items = <<>>


-----------------------------------------------------------------------------
(* Properties of the single-flight flags and of BackupDataService.         *)

\* No update_cached_data call is suspended between its entry and its end.
NoCachedUpdateRunning == \A c \in Coroutines : pc[c] \notin {"c_avail", "c_banks"}

\* C25: once an update_cached_data call that set is_updating has ended, by
\* returning, by an exception or by being cancelled, is_updating is False.
C25_FlagClearedAtEveryEnd ==
    (/\ NoCachedUpdateRunning
     /\ ret.svc = "cached"
     /\ ret.why \notin {"-", "skipped", "fresh"})
      => c_is_updating = FALSE


\* C26: one call of with_backup_fallback invokes backup_func at most once.
C26_BackupInvokedAtMostOnce == backupCalls <= 1


\* C27: update_backup_data moves last_updated and returns True only when at
\* least one of its two scrapes got data from the source; a cycle in which
\* both scrapes failed leaves last_updated as it was.
C27_StaleWhenNothingRefreshed ==
    [][(/\ ret' # ret
        /\ ret'.svc = "backup"
        /\ ret'.why = "completed"
        /\ ret'.unreachable)
          => (ret'.value # "True" /\ last_updated' = last_updated)]_vars


\* C28: with N >= 1 validated blood banks in the cache,
\* get_backup_blood_banks() without a filter returns N records, and
\* get_backup_donors() without a filter one donor record per cached bank.
C28_CachedBanksAreServed ==
    [][(/\ served' # served
        /\ served'.op \in {"get_backup_blood_banks", "get_backup_donors"}
        /\ Len(cached_blood_banks') >= 1)
          => Len(served'.rows) = Len(cached_blood_banks')]_vars


-----------------------------------------------------------------------------
(* Properties of the availability score.                                   *)

\* C29: a donor who is emergency-available, scored for a request without a
\* deadline or due 6 or more hours away, gets the availability score of the
\* same donor without emergency availability.
C29_EmergencyBonusNeedsDeadline ==
    (/\ scoring.pc = "returned"
     /\ scoring.donor.emergency_available
     /\ scoring.needed_by.kind = "date" => scoring.needed_by.n >= 6)
      => scoring.availability_score
           = AvailabilityScoreOf(
                 [scoring.donor EXCEPT !.emergency_available = FALSE],
                 scoring.needed_by)


-----------------------------------------------------------------------------
(* Properties of OTPService.                                               *)

\* The rows of a phone number that are neither verified nor flagged expired.
ActiveOtps(table, phone_number) ==
    {i \in 1..Len(table) :
        /\ table[i].phone_number = phone_number
        /\ ~table[i].is_verified
        /\ ~table[i].is_expired}

\* C30: after any sequence of create_otp, verify_otp and
\* cleanup_expired_otps calls every phone number has at most one active
\* row; a verification succeeds only on the row issued last for its phone
\* number, which was not verified before, and a verified row stays verified,
\* so that no OTP is verified twice.
C30_OneActiveOtpVerifiedOnce ==
    [][/\ \A phone_number \in PhoneNumbers :
            Cardinality(ActiveOtps(otps', phone_number)) <= 1
       /\ \A i \in 1..Len(otps) :
            /\ otps[i].is_verified => otps'[i].is_verified
            /\ (~otps[i].is_verified /\ otps'[i].is_verified)
                 => /\ otp_result'.op = "verify_otp"
                    /\ otp_result'.success
                    /\ otp_result'.otp_id = i
                    /\ \A j \in 1..Len(otps) :
                         otps[j].phone_number = otps[i].phone_number => j <= i
       /\ (otp_result'.op = "verify_otp" /\ otp_result'.success
             /\ otps' # otps)
            => \E i \in 1..Len(otps) :
                 ~otps[i].is_verified /\ otps'[i].is_verified]_vars

\* A second OTP was issued for a phone number under another purpose, which
\* flagged the first one; the second was then verified after a wrong try.
C30_Witness ==
    /\ Len(otps) = 2
    /\ otps[1].phone_number = otps[2].phone_number
    /\ otps[1].purpose # otps[2].purpose
    /\ otps[1].otp_code = otps[2].otp_code
    /\ otps[1].is_expired /\ ~otps[1].is_verified
    /\ otps[2].is_verified /\ otps[2].attempts = 2
    /\ otp_result.op = "verify_otp"
    /\ otp_result.success
    /\ otp_result.otp_id = 2

====
